---- MODULE Spec2Model ----
(***************************************************************************)
(* One ProfAI WebSocket session (src/websocket_server.py) together with    *)
(* the audio streaming pipeline it drives (src/services/sarvam_service.py).*)
(*                                                                         *)
(* The session is one asyncio task.  A state of the model is a point where *)
(* that task is suspended in an await; an action is the completion of the  *)
(* await followed by all the synchronous code up to the next await.  The   *)
(* client may close the connection while the task is suspended.            *)
(*                                                                         *)
(* A text is the sequence of the lengths of its words; a normalized text   *)
(* has its words separated by single spaces.                               *)
(***************************************************************************)
EXTENDS Integers, Sequences, FiniteSets, TLC

\* ------------------------------------------------------------------ bounds
MaxWords == 3
MaxMsgs == 2
MaxRequests == 2
NumModules == 1
NumSubTopics == 1

\* the words of the long text of LongSpec, one segment each
LongWords == 6

\* ------------------------------------------------------- program constants
chunk_size == 800
SynthesisCap == 4
MaxFirstChunkWords == 100
StreamCap == 5000
StreamCut == 4800

WordLens == {400}
MarkupToken == 0

NoChunk == <<0, 0>>
NormalCodes == {1000, 1001}
CloseCodes == {1000, 1001, 1006}
ErrorMsgs == {"tts failed", "connection closed", "received 1000 (OK)"}

VARIABLES
  conn,                  \* transport state: "OPEN" or "CLOSED"
  closeCode,             \* the closure code once CLOSED (0: no code)
  mode,                  \* "agent" (ProfAIAgent) or "basic" (basic_websocket_handler)
  services_available,    \* capability-availability map
  pc,                    \* the await the session task is suspended in
  cur,                   \* the frame being handled
  nreq,                  \* frames received so far
  conversation_metrics,  \* the agent's counters
  sent,                  \* frames handed to the transport since the last receive
  pending,               \* the frame of the send in progress
  chunk_count,           \* the handler's chunk counter
  pl,                    \* the audio generator of the current request
  closureSeen,           \* a send, a receive or a liveness check has reported closure
  lateSends,             \* sends attempted after closure was reported
  handlerCheck,          \* a handler's own liveness check reported disconnection
  sessions,              \* MultiSpec: the sessions of several connections
  wrapper,               \* WrapperSpec: one ProfAIWebSocketWrapper and its transport
  monitor                \* MonitorSpec: the connection monitor's inputs and results

\* the variables of the one-session specifications Spec, FairSpec and LongSpec
SessionVars == <<conn, closeCode, mode, services_available, pc, cur, nreq,
                 conversation_metrics, sent, pending, chunk_count, pl,
                 closureSeen, lateSends, handlerCheck>>

\* the variables of the other specifications, which the one-session ones leave alone
OtherVars == <<sessions, wrapper, monitor>>

vars == <<conn, closeCode, mode, services_available, pc, cur, nreq,
          conversation_metrics, sent, pending, chunk_count, pl,
          closureSeen, lateSends, handlerCheck, sessions, wrapper, monitor>>

\* ------------------------------------------------------------------- texts
RECURSIVE SumSeq(_)
SumSeq(s) == IF s = <<>> THEN 0 ELSE Head(s) + SumSeq(Tail(s))

\* len() of the words joined by single spaces
TextLen(ws) == IF ws = <<>> THEN 0 ELSE SumSeq(ws) + Len(ws) - 1

RECURSIVE SeqsUpTo(_, _)
SeqsUpTo(S, n) ==
  IF n = 0 THEN {<<>>}
  ELSE LET shorter == SeqsUpTo(S, n - 1)
       IN shorter \cup {Append(s, x) : s \in {t \in shorter : Len(t) = n - 1}, x \in S}

\* raw texts: words and markup tokens, and one word of exactly chunk_size characters
RawTexts == SeqsUpTo(WordLens \cup {MarkupToken}, MaxWords) \cup {<<chunk_size>>}

RECURSIVE CutWords(_, _)
CutWords(ws, n) ==
  IF ws = <<>> \/ n <= 0 THEN <<>>
  ELSE IF Head(ws) <= n THEN <<Head(ws)>> \o CutWords(Tail(ws), n - Head(ws) - 1)
  ELSE <<n>>

\* text[:4800] + "." and strip: the full stop joins the word the cut ends in,
\* or stands alone when the cut ends in a space
Truncate(ws) ==
  LET cut == CutWords(ws, StreamCut)
  IN IF TextLen(cut) < StreamCut THEN Append(cut, 1)
     ELSE [cut EXCEPT ![Len(cut)] = @ + 1]

\* markup characters become spaces, whitespace collapses, long text is cut
clean_text_for_ultra_fast_streaming(raw) ==
  LET words == SelectSeq(raw, LAMBDA w : w # MarkupToken)
  IN IF TextLen(words) > StreamCap THEN Truncate(words) ELSE words

RECURSIVE SplitFastLoop(_, _, _, _)
SplitFastLoop(words, current_chunk, chunks, max_chunk_size) ==
  IF words = <<>>
  THEN IF current_chunk # <<>> THEN Append(chunks, current_chunk) ELSE chunks
  ELSE LET word == Head(words)
       IN IF TextLen(current_chunk) + word + 1 <= max_chunk_size
          THEN SplitFastLoop(Tail(words), Append(current_chunk, word), chunks, max_chunk_size)
          ELSE SplitFastLoop(Tail(words), <<word>>,
                             IF current_chunk # <<>> THEN Append(chunks, current_chunk) ELSE chunks,
                             max_chunk_size)

split_text_fast(text, max_chunk_size) == SplitFastLoop(text, <<>>, <<>>, max_chunk_size)

\* number of leading words the first chunk takes
RECURSIVE FirstChunkCount(_, _, _)
FirstChunkCount(words, k, max_chunk_size) ==
  IF k < Len(words)
     /\ TextLen(SubSeq(words, 1, k)) + 1 + words[k + 1] <= max_chunk_size
     /\ k < MaxFirstChunkWords
  THEN FirstChunkCount(words, k + 1, max_chunk_size)
  ELSE k

\* text[n:].strip().split(): the words left once the first n characters of the
\* words joined by single spaces are cut off; a cut inside a word leaves its rest
DropChars(words, n) ==
  LET reach == {k \in 0..Len(words) : TextLen(SubSeq(words, 1, k)) >= n}
  IN IF n <= 0 THEN words
     ELSE IF reach = {} THEN <<>>
     ELSE LET k == CHOOSE j \in reach : \A i \in reach : j <= i
              rest == TextLen(SubSeq(words, 1, k)) - n
          IN (IF rest > 0 THEN <<rest>> ELSE <<>>) \o SubSeq(words, k + 1, Len(words))

\* the remaining text cut one character late
split_text_for_immediate_streaming_late(text, max_chunk_size) ==
  LET k == FirstChunkCount(text, 0, max_chunk_size)
      first_chunk == SubSeq(text, 1, k)
  IN IF k > 0
     THEN <<first_chunk>> \o split_text_fast(DropChars(text, TextLen(first_chunk) + 2),
                                             max_chunk_size)
     ELSE split_text_fast(text, max_chunk_size)

\* text and the number of words of the first chunk are locals, computed once
split_text_for_immediate_streaming(text, max_chunk_size) ==
  LET split(words, k) ==
        LET first_chunk == SubSeq(words, 1, k)
        IN IF k > 0
           THEN <<first_chunk>> \o split_text_fast(DropChars(words, TextLen(first_chunk)),
                                                   max_chunk_size)
           ELSE split_text_fast(words, max_chunk_size)
      first(words) == CHOOSE chunks \in {split(words, k) :
                               k \in {FirstChunkCount(words, 0, max_chunk_size)}} : TRUE
  IN IF text = <<>> THEN <<>>
     ELSE CHOOSE chunks \in {first(words) : words \in {text}} : TRUE

\* ------------------------------------------------------ connection monitor
\* A connection handle is None or a transport object with a closed flag and a
\* state; a closure is an exception object with a class and a close code
\* (0: no code).
NoHandle == [state |-> "None"]
ConnectionStates == {"CONNECTING", "OPEN", "CLOSING", "CLOSED"}
Handles == [closed : BOOLEAN, state : ConnectionStates] \cup {NoHandle}
ClosureClasses == {"ConnectionClosedOK", "ConnectionClosedError", "ConnectionClosed"}
NoCode == 0
Closures == [cls : ClosureClasses \cup {"Exception"}, code : CloseCodes \cup {NoCode}]

\* the session's transport, as the handlers and the provider see it
WsHandle == [closed |-> conn = "CLOSED", state |-> conn]
\* the exception the transport raises once the peer has closed with closeCode
ReceivedClosure ==
  [cls |-> IF closeCode \in NormalCodes THEN "ConnectionClosedOK"
                                        ELSE "ConnectionClosedError",
   code |-> closeCode]

\* Handles on which the answer is settled: None and CLOSED are not connected,
\* OPEN and not closed is connected. On the others (CONNECTING, CLOSING, a
\* closed flag set on an OPEN transport) the answer is the one fixed by
\* monitor.between, whatever it is.
Settled(h) == h = NoHandle \/ h.state = "CLOSED" \/ (h.state = "OPEN" /\ ~h.closed)
Between == {h \in Handles : ~Settled(h)}

is_client_connected(h) ==
  IF h = NoHandle THEN FALSE
  ELSE IF h.state = "CLOSED" THEN FALSE
  ELSE IF h.state = "OPEN" /\ ~h.closed THEN TRUE
  ELSE monitor.between[h]

is_normal_closure_code_only(e) == e.code \in NormalCodes
is_normal_closure(e) ==
  IF e.cls = "ConnectionClosedOK" THEN TRUE
  ELSE IF e.cls \in ClosureClasses THEN e.code \in NormalCodes
  ELSE FALSE

is_abnormal_disconnection(e) == ~is_normal_closure(e)

\* classifyClosure: NORMAL, ABNORMAL, or UNKNOWN for an unknown representation
classify_closure(e) ==
  IF e.cls \notin ClosureClasses THEN "UNKNOWN"
  ELSE IF is_normal_closure(e) THEN "NORMAL" ELSE "ABNORMAL"

is_client_disconnected(h) == ~is_client_connected(h)
should_continue_streaming_always(h) == h # NoHandle
should_continue_streaming(h) == is_client_connected(h)
validate_connection_before_operation(h) == is_client_connected(h)

\* SarvamService._is_client_disconnected
_is_client_disconnected(h) == ~is_client_connected(h)

\* SarvamService._is_normal_disconnection, on the provider's error message
is_normal_disconnection(error_msg) ==
  error_msg \in {"connection closed", "received 1000 (OK)"}

\* ------------------------------------------------------------ the session
\* The mutable part of the session, threaded through the synchronous code.
Cur == [pc |-> pc, req |-> cur, m |-> conversation_metrics, sent |-> sent, pend |-> pending,
        cc |-> chunk_count, pl |-> pl, seen |-> closureSeen, late |-> lateSends,
        hchk |-> handlerCheck, out |-> NoChunk]

Commit(st) ==
  /\ pc' = st.pc
  /\ cur' = st.req
  /\ conversation_metrics' = st.m
  /\ sent' = st.sent
  /\ pending' = st.pend
  /\ chunk_count' = st.cc
  /\ pl' = st.pl
  /\ closureSeen' = st.seen
  /\ lateSends' = st.late
  /\ handlerCheck' = st.hchk

\* a frame: its type, its chunk_id (audio chunks), its total_chunks (completion
\* frames), whether it carries server_time, its error text with the value the text
\* names, and the request_id it echoes (0: the frame has none)
NoFrame == [type |-> "none", id |-> 0, total_chunks |-> 0, server_time |-> FALSE,
            error |-> <<>>, request_id |-> 0]
Frame(t) == [NoFrame EXCEPT !.type = t]
ChunkFrame(n) == [Frame("audio_chunk") EXCEPT !.id = n]
PongFrame == [Frame("pong") EXCEPT !.server_time = TRUE]
ErrorFrame(text) == [Frame("error") EXCEPT !.error = text]

\* the sends whose frame literal carries data.get("request_id", "")
RequestIdSends ==
  {"ch_ack", "ch_text", "ch_chunk", "ch_complete",
   "sc_ack", "sc_info", "sc_teach", "sc_teach_fb", "sc_chunk", "sc_complete",
   "ao_started", "ao_chunk", "ao_complete",
   "ta_ack", "ta_complete", "sl_set", "gm_resp"}

\* the sends whose frame literal carries "total_chunks": chunk_count
TotalChunksSends == {"ch_complete", "sc_complete", "ao_complete"}

\* the frame literal of the send `label`, filled in from the request and the counter
Literal(st, frame, label) ==
  [frame EXCEPT !.request_id = IF label \in RequestIdSends THEN st.req.request_id ELSE @,
                !.total_chunks = IF label \in TotalChunksSends THEN st.cc ELSE @]

NoPl == [state |-> "none", path |-> "none", nseg |-> 0, len |-> 0, at |-> "none",
         nmsg |-> 0, calls |-> 0, fallbacks |-> 0, provided |-> <<>>, forwarded |-> <<>>,
         tasks |-> <<>>, doneQ |-> <<>>, consumed |-> 0, reported |-> "none"]

\* ----------------------------------------------------- the audio generator
\* Each operator runs the generator from one point to its next await (st.pc is
\* the await), its next yield (st.out is the chunk) or its end.

End(st) == [st EXCEPT !.pl.state = "end", !.pl.nmsg = 0, !.out = NoChunk]

\* a liveness check of the generator reports disconnection at check point `where`
Reported(st, where) ==
  [st EXCEPT !.pl.reported = IF @ = "none" THEN where ELSE @, !.seen = TRUE]

Yield(st, chunk, at) ==
  [st EXCEPT !.pl.forwarded = Append(@, chunk), !.pl.at = at, !.out = chunk]

\* _stream_audio_immediate, the as_completed loop: take the next finished task
RECURSIVE ParIter(_)
ParTake(st) ==
  LET done == Head(st.pl.doneQ)
      st1 == [st EXCEPT !.pl.doneQ = Tail(@), !.pl.consumed = @ + 1]
  IN IF done[2] = "audio" THEN Yield(st1, <<done[1], 0>>, "par") ELSE ParIter(st1)

CancelRunning(tasks) ==
  [j \in DOMAIN tasks |-> IF tasks[j] = "running" THEN "cancelled" ELSE tasks[j]]

ParIter(st) ==
  IF st.pl.consumed = Len(st.pl.tasks) THEN End(st)
  ELSE IF _is_client_disconnected(WsHandle)
  THEN End(Reported([st EXCEPT !.pl.tasks = CancelRunning(@)], "par"))
  ELSE IF st.pl.doneQ = <<>> THEN [st EXCEPT !.pc = "pl_par", !.out = NoChunk]
  ELSE ParTake(st)

\* _stream_audio_immediate after the first segment's stream has ended
StartRemaining(st) ==
  IF st.pl.nseg > 1 /\ ~_is_client_disconnected(WsHandle)
  THEN ParIter([st EXCEPT !.pl.tasks = [j \in 1..(st.pl.nseg - 1) |-> "running"],
                          !.pl.calls = @ + st.pl.nseg - 1])
  ELSE IF st.pl.nseg > 1 THEN End(Reported(st, "remaining"))
  ELSE End(st)

\* the direct stream has returned
AfterDirect(st) ==
  IF st.pl.path = "direct" THEN End(st) ELSE StartRemaining([st EXCEPT !.pl.nmsg = 0])

\* a chunk of the direct stream passes through the caller's relay loop
Relay(st, chunk, at) ==
  IF st.pl.path = "immediate" /\ _is_client_disconnected(WsHandle)
  THEN End(Reported(st, "relay"))
  ELSE Yield(st, chunk, at)

stream_audio_direct(st) ==
  IF _is_client_disconnected(WsHandle) THEN AfterDirect(Reported(st, "start"))
  ELSE [st EXCEPT !.pl.calls = @ + 1, !.pl.nmsg = 0, !.pc = "pl_stream", !.out = NoChunk]

\* the remaining segments started together with the first one
stream_audio_immediate_eager(st, chunks) ==
  IF _is_client_disconnected(WsHandle) THEN End(Reported(st, "start"))
  ELSE IF chunks = <<>> THEN End(st)
  ELSE stream_audio_direct([st EXCEPT !.pl.nseg = Len(chunks),
                                      !.pl.tasks = [j \in 1..(Len(chunks) - 1) |-> "running"],
                                      !.pl.calls = @ + Len(chunks) - 1])

stream_audio_immediate(st, chunks) ==
  IF _is_client_disconnected(WsHandle) THEN End(Reported(st, "start"))
  ELSE IF chunks = <<>> THEN End(st)
  ELSE stream_audio_direct([st EXCEPT !.pl.nseg = Len(chunks)])

\* the threshold test with < for <=
stream_audio_generation_lt(st, text) ==
  LET cleaned_text == clean_text_for_ultra_fast_streaming(text)
      st1 == [st EXCEPT !.pl = [NoPl EXCEPT !.state = "run", !.len = TextLen(cleaned_text)]]
  IN IF _is_client_disconnected(WsHandle) THEN End(Reported(st1, "start"))
     ELSE IF TextLen(cleaned_text) < chunk_size
          THEN stream_audio_direct([st1 EXCEPT !.pl.path = "direct", !.pl.nseg = 1])
          ELSE stream_audio_immediate([st1 EXCEPT !.pl.path = "immediate"],
                 split_text_for_immediate_streaming(cleaned_text, chunk_size))

stream_audio_generation(st, text) ==
  LET cleaned_text == clean_text_for_ultra_fast_streaming(text)
      st1 == [st EXCEPT !.pl = [NoPl EXCEPT !.state = "run", !.len = TextLen(cleaned_text)]]
  IN IF _is_client_disconnected(WsHandle) THEN End(Reported(st1, "start"))
     ELSE IF TextLen(cleaned_text) <= chunk_size
          THEN stream_audio_direct([st1 EXCEPT !.pl.path = "direct", !.pl.nseg = 1])
          ELSE stream_audio_immediate([st1 EXCEPT !.pl.path = "immediate"],
                 split_text_for_immediate_streaming(cleaned_text, chunk_size))

\* a message of the provider's stream has arrived
OnMessage(st, isAudio) ==
  LET st1 == [st EXCEPT !.pl.nmsg = @ + 1]
  IN IF _is_client_disconnected(WsHandle) THEN AfterDirect(Reported(st1, "message"))
     ELSE IF isAudio
     THEN LET chunk == <<1, Len(st.pl.provided) + 1>>
          IN Relay([st1 EXCEPT !.pl.provided = Append(@, chunk)], chunk, "stream")
     ELSE st1

\* the provider's stream has ended
OnStreamEnd(st) ==
  IF ~_is_client_disconnected(WsHandle) THEN [st EXCEPT !.pc = "pl_flush", !.pl.nmsg = 0]
  ELSE AfterDirect(Reported([st EXCEPT !.pl.nmsg = 0], "flush"))

\* the fallback started without asking whether the client is still there
DirectExcept_nocheck(st, error_msg) ==
  IF is_normal_disconnection(error_msg) THEN AfterDirect(st)
  ELSE [st EXCEPT !.pl.calls = @ + 1, !.pl.fallbacks = @ + 1, !.pc = "pl_fallback"]

\* the except clause of _stream_audio_direct
DirectExcept(st, error_msg) ==
  IF is_normal_disconnection(error_msg) THEN AfterDirect(st)
  ELSE IF ~_is_client_disconnected(WsHandle)
  THEN [st EXCEPT !.pl.calls = @ + 1, !.pl.fallbacks = @ + 1, !.pc = "pl_fallback",
                  !.pl.nmsg = 0]
  ELSE AfterDirect(Reported(st, "except"))

\* _generate_audio_single has returned to the except clause
OnFallback(st, res) ==
  IF res = "audio" THEN Relay(st, <<1, 0>>, "fallback") ELSE AfterDirect(st)

\* the consumer asks for the next chunk
Resume(st) ==
  CASE st.pl.at = "stream" -> [st EXCEPT !.pc = "pl_stream", !.out = NoChunk]
    [] st.pl.at = "fallback" -> AfterDirect(st)
    [] st.pl.at = "par" -> ParIter(st)

\* ------------------------------------------------------------ the handlers
IncErrors(st) == [st EXCEPT !.m.errors = @ + 1]

\* the handler's own counter forgotten
UpdateMetrics_total_only(st, kind) == [st EXCEPT !.m.total_requests = @ + 1]

\* total_requests and the handler's own counter, incremented together
UpdateMetrics(st, kind) ==
  [st EXCEPT !.m.total_requests = @ + 1, !.m[kind] = @ + 1]

\* process_messages: finally cleanup(), the loop is left
Terminate(st) == [st EXCEPT !.pc = "terminated", !.pend = NoFrame]

\* the closure logged and the loop continued
RouterClosed_continue(st) == [st EXCEPT !.seen = TRUE, !.pc = "recv", !.pend = NoFrame]

\* process_messages: except ConnectionClosed
RouterClosed(st) ==
  Terminate(IF ~is_normal_closure(ReceivedClosure) THEN IncErrors([st EXCEPT !.seen = TRUE])
            ELSE [st EXCEPT !.seen = TRUE])

\* the loop calls recv() again
IssueRecv(st) ==
  IF conn = "OPEN" THEN [st EXCEPT !.pc = "recv", !.pend = NoFrame]
  ELSE IF mode = "agent" THEN RouterClosed(st)
  ELSE Terminate([st EXCEPT !.seen = TRUE])

RECURSIVE SendFailed(_, _)
RECURSIVE SendOk(_, _)
RECURSIVE Consume(_)

\* ProfAIWebSocketWrapper.send: a closed transport raises at once
IssueSend(st, frame, label) ==
  IF conn = "OPEN" THEN [st EXCEPT !.pc = label, !.pend = Literal(st, frame, label)]
  ELSE SendFailed([st EXCEPT !.late = IF st.seen THEN @ + 1 ELSE @, !.seen = TRUE,
                             !.pend = NoFrame], label)

Return(st) == IssueRecv(st)

\* the consumer leaves its `async for` while the generator is suspended at a yield
Abandon(st) == [st EXCEPT !.pl.state = "abandoned", !.pl.nmsg = 0]

\* ---- handle_chat_with_audio
ch_outer_closed(st) ==
  Return(IF ~is_normal_closure(ReceivedClosure) THEN IncErrors(st) ELSE st)

\* the failure of the text generation passed over and the audio started
ch_inner_except_speaks(st) == IssueSend(st, Frame("audio_generation_started"), "ch_started")

ch_inner_except(st) == IssueSend(st, Frame("error"), "ch_err_fail")

ch_metrics(st) == Return(UpdateMetrics(st, "chat_requests"))

\* the completion frame forgotten
ch_after_loop_silent(st) == ch_metrics(st)

ch_after_loop(st) ==
  IF is_client_connected(WsHandle)
  THEN IssueSend(st, Frame("audio_generation_complete"), "ch_complete")
  ELSE ch_metrics([st EXCEPT !.hchk = TRUE, !.seen = TRUE])

ch_on_chunk(st) ==
  IF ~is_client_connected(WsHandle)
  THEN ch_after_loop(Abandon([st EXCEPT !.hchk = TRUE, !.seen = TRUE]))
  ELSE IssueSend([st EXCEPT !.cc = @ + 1], ChunkFrame(st.cc + 1), "ch_chunk")

ch_complete_failed(st) ==
  IF is_normal_closure(ReceivedClosure) THEN ch_metrics(st)
  ELSE Return(IncErrors(IncErrors(st)))

handle_chat_with_audio(st) ==
  IF ~services_available.chat \/ ~services_available.audio
  THEN IssueSend(st, Frame("error"), "ch_err_unavail")
  ELSE IF ~st.req.has THEN IssueSend(st, Frame("error"), "ch_err_req")
  ELSE IssueSend(st, Frame("processing_started"), "ch_ack")

\* ---- handle_audio_only
ao_outer_except(st) == IssueSend(IncErrors(st), Frame("error"), "ao_err_outer")

ao_inner_except(st) == IssueSend(st, Frame("error"), "ao_err_gen")

ao_metrics(st) == Return(UpdateMetrics(st, "audio_requests"))

ao_on_chunk(st) == IssueSend([st EXCEPT !.cc = @ + 1], ChunkFrame(st.cc + 1), "ao_chunk")

ao_after_loop(st) == IssueSend(st, Frame("audio_generation_complete"), "ao_complete")

handle_audio_only(st) ==
  IF st.req.text = <<>> THEN IssueSend(st, Frame("error"), "ao_err_req")
  ELSE IssueSend(st, Frame("audio_generation_started"), "ao_started")

\* ---- handle_start_class
sc_outer_except(st) == IssueSend(IncErrors(st), Frame("error"), "sc_err_outer")

sc_load_except(st) == IssueSend(st, Frame("error"), "sc_err_load")

\* the exception of the teaching service answered by an error frame
sc_teach_except_error(st) == sc_load_except(st)

sc_teach_except(st) == IssueSend(st, Frame("teaching_content"), "sc_teach_fb")

sc_audio_except(st) == IssueSend(st, Frame("error"), "sc_err_gen")

sc_metrics(st) == Return(UpdateMetrics(st, "teaching_requests"))

sc_on_chunk(st) == IssueSend([st EXCEPT !.cc = @ + 1], ChunkFrame(st.cc + 1), "sc_chunk")

sc_after_loop(st) == IssueSend(st, Frame("class_complete"), "sc_complete")

\* module and sub_topic are bound: from here on the indices stand for the
\* entries they selected (a negative index counts from the end of the list)
Selected(st) ==
  [st EXCEPT !.req.midx = @ % NumModules, !.req.sidx = @ % NumSubTopics]

\* course_id is read for the log line and the acknowledgment frame only: once
\* class_starting has gone out the request is handled as one that carried it
Acknowledged(st) == [st EXCEPT !.req.has = TRUE]

handle_start_class(st) == IssueSend(st, Frame("class_starting"), "sc_ack")

\* ---- handle_transcribe_audio
ta_outer_except(st) == IssueSend(st, Frame("error"), "ta_err_outer")

ta_inner_except(st) == IssueSend(st, Frame("error"), "ta_err_fail")

handle_transcribe_audio(st) ==
  IF ~st.req.has THEN IssueSend(st, Frame("error"), "ta_err_req")
  ELSE IssueSend(st, Frame("transcription_started"), "ta_ack")

\* ---- handle_set_language, handle_get_metrics, handle_ping
sl_except(st) == IssueSend(st, Frame("error"), "sl_err2")

handle_set_language(st) ==
  IF ~st.req.has THEN IssueSend(st, Frame("error"), "sl_err")
  ELSE IssueSend(st, Frame("language_set"), "sl_set")

gm_except(st) == IssueSend(st, Frame("error"), "gm_err")

handle_get_metrics(st) == IssueSend(st, Frame("metrics_response"), "gm_resp")

\* the pong without its server_time
handle_ping_notime(st) == IssueSend(st, Frame("pong"), "ping_pong")

handle_ping(st) == IssueSend(st, PongFrame, "ping_pong")

\* ---- the consumer side of `async for audio_chunk in stream_audio_from_text`
StreamStart(st, unavailable_except) ==
  IF ~services_available.audio THEN unavailable_except
  ELSE Consume(stream_audio_generation([st EXCEPT !.cc = 0, !.req.text = <<>>], st.req.text))

Consume(st) ==
  IF st.pl.state = "end"
  THEN CASE st.req.type = "chat_with_audio" -> ch_after_loop(st)
         [] st.req.type = "audio_only" -> ao_after_loop(st)
         [] st.req.type = "start_class" -> sc_after_loop(st)
  ELSE IF st.out # NoChunk
  THEN CASE st.req.type = "chat_with_audio" -> ch_on_chunk(st)
         [] st.req.type = "audio_only" -> ao_on_chunk(st)
         [] st.req.type = "start_class" -> sc_on_chunk(st)
  ELSE st

\* ---- what follows a send that succeeded
SendOk(st, label) ==
  CASE label \in {"ready", "r_err_json", "r_err_proc", "r_err_notype", "r_err_unknown",
                  "b_ready", "b_err_json", "b_err_proc", "b_err_notype", "b_pong",
                  "b_err_mode"} -> IssueRecv(st)
    [] label \in {"ping_pong", "sl_err", "sl_set", "sl_err2", "gm_resp", "gm_err",
                  "ch_err_unavail", "ch_err_req", "ch_err_empty", "ch_err_timeout",
                  "ch_err_fail", "ao_err_req", "ao_err_outer",
                  "sc_err_nofile", "sc_err_module", "sc_err_sub", "sc_err_timeout",
                  "sc_err_load", "sc_err_outer",
                  "ta_err_req", "ta_complete", "ta_err_empty", "ta_err_timeout",
                  "ta_err_fail", "ta_err_outer"} -> Return(st)
    [] label = "ch_ack" -> [st EXCEPT !.pc = "ch_llm"]
    [] label = "ch_text" -> IssueSend(st, Frame("audio_generation_started"), "ch_started")
    [] label = "ch_started" -> StreamStart(st, st)
    [] label = "ch_complete" -> ch_metrics(st)
    [] label = "ao_started" -> StreamStart(st, ao_inner_except(st))
    [] label \in {"ao_complete", "ao_err_gen"} -> ao_metrics(st)
    [] label = "sc_ack" -> [Acknowledged(st) EXCEPT !.pc = "sc_load"]
    [] label = "sc_info" ->
         IF ~services_available.teaching
         THEN IssueSend(Selected(st), Frame("teaching_content"), "sc_teach")
         ELSE [Selected(st) EXCEPT !.pc = "sc_gen"]
    [] label \in {"sc_teach", "sc_teach_fb"} ->
         IssueSend(st, Frame("audio_generation_started"), "sc_started")
    [] label = "sc_started" -> StreamStart(st, sc_audio_except(st))
    [] label \in {"sc_complete", "sc_err_gen"} -> sc_metrics(st)
    [] label = "ta_ack" ->
         IF ~services_available.audio THEN ta_inner_except(st)
         ELSE [st EXCEPT !.pc = "ta_stt"]
    [] label \in {"ch_chunk", "ao_chunk", "sc_chunk"} -> Consume(Resume(st))

\* ---- where a ConnectionClosed raised by a send is caught
SendFailed(st, label) ==
  CASE label \in {"ready", "r_err_json", "r_err_proc",
                  "b_ready", "b_err_json", "b_err_proc", "b_err_notype", "b_pong",
                  "b_err_mode"} -> Terminate(st)
    [] label \in {"r_err_notype", "r_err_unknown", "ping_pong", "sl_err2", "gm_err",
                  "ao_err_outer", "sc_err_outer", "ta_err_outer"} -> RouterClosed(st)
    [] label \in {"ch_err_unavail", "ch_err_req", "ch_ack", "ch_started",
                  "ch_err_timeout", "ch_err_fail"} -> ch_outer_closed(st)
    [] label \in {"ch_text", "ch_err_empty"} -> ch_inner_except(st)
    [] label = "ch_chunk" -> ch_after_loop(Abandon(st))
    [] label = "ch_complete" -> ch_complete_failed(st)
    [] label \in {"ao_err_req", "ao_started", "ao_err_gen"} -> ao_outer_except(st)
    [] label = "ao_chunk" -> ao_inner_except(Abandon(st))
    [] label = "ao_complete" -> ao_inner_except(st)
    [] label \in {"sc_ack", "sc_err_timeout", "sc_err_load", "sc_teach_fb", "sc_started",
                  "sc_err_gen"} -> sc_outer_except(st)
    [] label \in {"sc_err_nofile", "sc_err_module", "sc_err_sub"} -> sc_load_except(st)
    [] label = "sc_info" -> sc_load_except(Selected(st))
    [] label = "sc_teach" -> sc_teach_except(st)
    [] label = "sc_chunk" -> sc_audio_except(Abandon(st))
    [] label = "sc_complete" -> sc_audio_except(st)
    [] label \in {"ta_err_req", "ta_ack", "ta_err_timeout", "ta_err_fail"} ->
         ta_outer_except(st)
    [] label \in {"ta_complete", "ta_err_empty"} -> ta_inner_except(st)
    [] label \in {"sl_err", "sl_set"} -> sl_except(st)
    [] label = "gm_resp" -> gm_except(st)

SendLabels ==
  {"ready", "r_err_json", "r_err_proc", "r_err_notype", "r_err_unknown",
   "b_ready", "b_err_json", "b_err_proc", "b_err_notype", "b_pong", "b_err_mode",
   "ping_pong", "sl_err", "sl_set", "sl_err2", "gm_resp", "gm_err",
   "ch_err_unavail", "ch_err_req", "ch_ack", "ch_text", "ch_err_empty",
   "ch_err_timeout", "ch_err_fail", "ch_started", "ch_chunk", "ch_complete",
   "ao_err_req", "ao_started", "ao_chunk", "ao_complete", "ao_err_gen", "ao_err_outer",
   "sc_ack", "sc_err_nofile", "sc_err_module", "sc_err_sub", "sc_err_timeout",
   "sc_err_load", "sc_info", "sc_teach", "sc_teach_fb", "sc_started", "sc_chunk",
   "sc_complete", "sc_err_gen", "sc_err_outer",
   "ta_err_req", "ta_ack", "ta_complete", "ta_err_empty", "ta_err_timeout",
   "ta_err_fail", "ta_err_outer"}

\* ------------------------------------------------------------- the router
\* the malformed frame counted as an error
r_invalid_json_counted(st) ==
  IssueSend(IncErrors(st), ErrorFrame(<<"Invalid JSON message">>), "r_err_json")

\* process_messages: except json.JSONDecodeError
r_invalid_json(st) == IssueSend(st, ErrorFrame(<<"Invalid JSON message">>), "r_err_json")

\* the unknown type dropped without an answer
r_unknown_type_silent(st) == IssueRecv(st)

\* process_messages: the else branch of the routing chain
r_unknown_type(st) ==
  IssueSend(st, ErrorFrame(<<"Unknown message type", st.req.type>>), "r_err_unknown")

\* the frame without a type passed on to the routing chain
r_missing_type_routed(st) == r_unknown_type(st)

\* process_messages: `if not message_type`
r_missing_type(st) ==
  IssueSend(st, ErrorFrame(<<"Message type is required">>), "r_err_notype")

\* the processing error that ends the loop
r_processing_error_fatal(st) == Terminate(st)

\* process_messages: except Exception
r_processing_error(st) ==
  IF is_client_connected(WsHandle)
  THEN IssueSend(st, Frame("error"), "r_err_proc")
  ELSE IssueRecv(st)

\* process_messages: a frame has been received
Dispatch(st) ==
  LET t == st.req.type
  IN CASE t = "badjson" -> r_invalid_json(st)
       [] t = "nondict" -> r_processing_error(st)
       [] t = "notype" -> r_missing_type(st)
       [] t = "ping" -> handle_ping(st)
       [] t = "chat_with_audio" -> handle_chat_with_audio(st)
       [] t = "start_class" -> handle_start_class(st)
       [] t = "audio_only" -> handle_audio_only(st)
       [] t = "transcribe_audio" -> handle_transcribe_audio(st)
       [] t = "set_language" -> handle_set_language(st)
       [] t = "get_metrics" -> handle_get_metrics(st)
       [] OTHER -> r_unknown_type(st)

\* basic_websocket_handler: a frame has been received
BasicDispatch(st) ==
  LET t == st.req.type
  IN CASE t = "badjson" ->
            IssueSend(st, ErrorFrame(<<"Invalid JSON message">>), "b_err_json")
       [] t = "nondict" ->
            IF is_client_connected(WsHandle)
            THEN IssueSend(st, Frame("error"), "b_err_proc")
            ELSE IssueRecv(st)
       [] t = "notype" ->
            IssueSend(st, ErrorFrame(<<"Message type is required">>), "b_err_notype")
       [] t = "ping" -> IssueSend(st, PongFrame, "b_pong")
       [] OTHER ->
            IssueSend(st, ErrorFrame(<<"Service not available in basic mode", t>>),
                      "b_err_mode")

\* ----------------------------------------------------------------- inputs
Req(t, h, text, m, s) ==
  [type |-> t, has |-> h, text |-> text, midx |-> m, sidx |-> s, request_id |-> 0]

NoReq == Req("none", FALSE, <<>>, 0, 0)

SpokenTexts == RawTexts \ {<<>>}

Requests ==
  {Req(t, TRUE, <<>>, 0, 0) :
     t \in {"badjson", "nondict", "notype", "unknown", "subscribe", "ping",
            "get_metrics"}}
  \cup {Req(t, h, <<>>, 0, 0) :
     t \in {"set_language", "transcribe_audio", "chat_with_audio"}, h \in BOOLEAN}
  \cup {Req("audio_only", text # <<>>, text, 0, 0) : text \in RawTexts}
  \cup {Req("start_class", TRUE, <<>>, m, s) :
     m \in (-(NumModules + 1))..NumModules, s \in (-(NumSubTopics + 1))..NumSubTopics}
  \cup {Req("start_class", FALSE, <<>>, 0, 0)}

ZeroMetrics == [total_requests |-> 0, chat_requests |-> 0, audio_requests |-> 0,
                teaching_requests |-> 0, errors |-> 0]

AvailabilityMaps == [chat : BOOLEAN, audio : BOOLEAN, teaching : BOOLEAN]

\* the other specifications' variables while a one-session specification runs
NoWrapper == [pc |-> "none"]
NoMonitor == [op |-> "none"]

\* ------------------------------------------------------------------- Init
\* websocket_handler has built the wrapper and the agent (or fallen back to the
\* basic handler) and the first send, connection_ready, is in progress.
Init ==
  /\ conn = "OPEN"
  /\ closeCode = 0
  /\ mode \in {"agent", "basic"}
  /\ services_available \in AvailabilityMaps
  /\ mode = "basic" => services_available = [chat |-> FALSE, audio |-> FALSE, teaching |-> FALSE]
  /\ pc = IF mode = "agent" THEN "ready" ELSE "b_ready"
  /\ cur = NoReq
  /\ nreq = 0
  /\ conversation_metrics = ZeroMetrics
  /\ sent = <<>>
  /\ pending = Frame("connection_ready")
  /\ chunk_count = 0
  /\ pl = NoPl
  /\ closureSeen = FALSE
  /\ lateSends = 0
  /\ handlerCheck = FALSE
  /\ sessions = <<>>
  /\ wrapper = NoWrapper
  /\ monitor = NoMonitor

Env == <<conn, closeCode, mode, services_available>>

\* ---------------------------------------------------------------- actions
\* the peer or the network closes the connection
ClientClose(code) ==
  /\ conn = "OPEN"
  /\ pc # "terminated"
  /\ conn' = "CLOSED"
  /\ closeCode' = code
  /\ UNCHANGED <<mode, services_available, pc, cur, nreq, conversation_metrics, sent,
                 pending, chunk_count, pl, closureSeen, lateSends, handlerCheck,
                 OtherVars>>

\* websocket.send has handed the frame to the transport
SendDone ==
  /\ pc \in SendLabels
  /\ Commit(SendOk([Cur EXCEPT !.sent = Append(@, pending), !.pend = NoFrame], pc))
  /\ UNCHANGED <<Env, nreq, OtherVars>>

\* websocket.send raises ConnectionClosed
SendRaise ==
  /\ pc \in SendLabels
  /\ conn = "CLOSED"
  /\ Commit(SendFailed([Cur EXCEPT !.seen = TRUE, !.pend = NoFrame], pc))
  /\ UNCHANGED <<Env, nreq, OtherVars>>

\* websocket.recv returns a frame
Recv(frame) ==
  /\ pc = "recv"
  /\ conn = "OPEN"
  /\ nreq < MaxRequests
  /\ nreq' = nreq + 1
  /\ LET st == [Cur EXCEPT !.req = [frame EXCEPT !.request_id = nreq + 1],
                           !.sent = <<>>, !.cc = 0, !.pl = NoPl]
     IN Commit(IF mode = "agent" THEN Dispatch(st) ELSE BasicDispatch(st))
  /\ UNCHANGED <<Env, OtherVars>>

\* websocket.recv raises ConnectionClosed
RecvRaise ==
  /\ pc = "recv"
  /\ conn = "CLOSED"
  /\ Commit(IssueRecv(Cur))
  /\ UNCHANGED <<Env, nreq, OtherVars>>

\* chat_service.ask_question under wait_for(8.0)
ChatDone(outcome, text) ==
  /\ pc = "ch_llm"
  /\ Commit(CASE outcome = "answer" ->
                   IssueSend([Cur EXCEPT !.req.text = text], Frame("text_response"), "ch_text")
              [] outcome = "empty" -> IssueSend(Cur, Frame("error"), "ch_err_empty")
              [] outcome = "timeout" -> IssueSend(Cur, Frame("error"), "ch_err_timeout")
              [] outcome = "error" -> ch_inner_except(Cur))
  /\ UNCHANGED <<Env, nreq, OtherVars>>

\* handle_start_class: the course file is looked up and the indices validated
CourseDone(outcome, text) ==
  /\ pc = "sc_load"
  /\ Commit(CASE outcome = "nofile" -> IssueSend(Cur, Frame("error"), "sc_err_nofile")
              [] outcome = "timeout" -> IssueSend(Cur, Frame("error"), "sc_err_timeout")
              [] outcome = "error" -> sc_load_except(Cur)
              [] outcome = "data" ->
                   IF cur.midx >= NumModules
                   THEN IssueSend(Cur, Frame("error"), "sc_err_module")
                   ELSE IF cur.midx < -NumModules THEN sc_load_except(Cur)
                   ELSE IF cur.sidx >= NumSubTopics
                   THEN IssueSend(Cur, Frame("error"), "sc_err_sub")
                   ELSE IF cur.sidx < -NumSubTopics THEN sc_load_except(Cur)
                   ELSE IssueSend([Cur EXCEPT !.req.text = text],
                                  Frame("course_info"), "sc_info"))
  /\ UNCHANGED <<Env, nreq, OtherVars>>

\* teaching_service.generate_teaching_content under wait_for(6.0)
TeachDone(outcome, text) ==
  /\ pc = "sc_gen"
  /\ Commit(CASE outcome = "content" ->
                   IssueSend([Cur EXCEPT !.req.text = text], Frame("teaching_content"),
                             "sc_teach")
              [] outcome \in {"empty", "timeout"} ->
                   IssueSend(Cur, Frame("teaching_content"), "sc_teach")
              [] outcome = "error" -> sc_teach_except(Cur))
  /\ UNCHANGED <<Env, nreq, OtherVars>>

\* audio_service.transcribe_audio under wait_for(10.0)
SttDone(outcome) ==
  /\ pc = "ta_stt"
  /\ Commit(CASE outcome = "text" -> IssueSend(Cur, Frame("transcription_complete"), "ta_complete")
              [] outcome = "empty" -> IssueSend(Cur, Frame("error"), "ta_err_empty")
              [] outcome = "timeout" -> IssueSend(Cur, Frame("error"), "ta_err_timeout")
              [] outcome = "error" -> ta_inner_except(Cur))
  /\ UNCHANGED <<Env, nreq, OtherVars>>

\* the provider's stream delivers a message
ProvMessage(isAudio) ==
  /\ pc = "pl_stream"
  /\ pl.nmsg < MaxMsgs
  /\ Commit(Consume(OnMessage(Cur, isAudio)))
  /\ UNCHANGED <<Env, nreq, OtherVars>>

\* the provider's stream ends
ProvEnd ==
  /\ pc = "pl_stream"
  /\ Commit(Consume(OnStreamEnd(Cur)))
  /\ UNCHANGED <<Env, nreq, OtherVars>>

\* connect, configure, convert, the stream or flush raises
ProvFail(error_msg) ==
  /\ pc \in {"pl_stream", "pl_flush"}
  /\ Commit(Consume(DirectExcept(Cur, error_msg)))
  /\ UNCHANGED <<Env, nreq, OtherVars>>

\* flush returns
FlushDone ==
  /\ pc = "pl_flush"
  /\ Commit(Consume(AfterDirect(Cur)))
  /\ UNCHANGED <<Env, nreq, OtherVars>>

\* the fallback _generate_audio_single returns audio or an empty buffer
FallbackDone(res) ==
  /\ pc = "pl_fallback"
  /\ Commit(Consume(OnFallback(Cur, res)))
  /\ UNCHANGED <<Env, nreq, OtherVars>>

\* the fan-out tasks a request can have, one per segment after the first
TaskIds == 1..(IF MaxWords > LongWords THEN MaxWords ELSE LongWords)

\* a fan-out task (_generate_chunk_fast) finishes
TaskDone(j, res) ==
  /\ pc # "terminated"
  /\ j \in DOMAIN pl.tasks
  /\ pl.tasks[j] = "running"
  /\ pl' = [pl EXCEPT !.tasks[j] = "done", !.doneQ = Append(@, <<j + 1, res>>)]
  /\ UNCHANGED <<Env, pc, cur, nreq, conversation_metrics, sent, pending, chunk_count,
                 closureSeen, lateSends, handlerCheck, OtherVars>>

\* as_completed hands the generator the next finished task
ParWake ==
  /\ pc = "pl_par"
  /\ pl.doneQ # <<>>
  /\ Commit(Consume(ParTake(Cur)))
  /\ UNCHANGED <<Env, nreq, OtherVars>>

Next ==
  \/ \E code \in CloseCodes : ClientClose(code)
  \/ SendDone
  \/ SendRaise
  \/ \E frame \in Requests : Recv(frame)
  \/ RecvRaise
  \/ \E outcome \in {"answer", "empty", "timeout", "error"}, text \in SpokenTexts :
       ChatDone(outcome, text)
  \/ \E outcome \in {"nofile", "timeout", "error", "data"}, text \in SpokenTexts :
       CourseDone(outcome, text)
  \/ \E outcome \in {"content", "empty", "timeout", "error"}, text \in SpokenTexts :
       TeachDone(outcome, text)
  \/ \E outcome \in {"text", "empty", "timeout", "error"} : SttDone(outcome)
  \/ \E isAudio \in BOOLEAN : ProvMessage(isAudio)
  \/ ProvEnd
  \/ \E error_msg \in ErrorMsgs : ProvFail(error_msg)
  \/ FlushDone
  \/ \E res \in {"audio", "empty"} : FallbackDone(res)
  \/ \E j \in TaskIds, res \in {"audio", "empty"} : TaskDone(j, res)
  \/ ParWake

Spec == Init /\ [][Next]_vars

\* The event loop resumes the session task whenever the await it is suspended in
\* completes, and runs every fan-out task; sends, the bounded capability calls
\* and the provider's calls all return or raise.
SessionStep ==
  \/ SendDone
  \/ SendRaise
  \/ RecvRaise
  \/ \E outcome \in {"answer", "empty", "timeout", "error"}, text \in SpokenTexts :
       ChatDone(outcome, text)
  \/ \E outcome \in {"nofile", "timeout", "error", "data"}, text \in SpokenTexts :
       CourseDone(outcome, text)
  \/ \E outcome \in {"content", "empty", "timeout", "error"}, text \in SpokenTexts :
       TeachDone(outcome, text)
  \/ \E outcome \in {"text", "empty", "timeout", "error"} : SttDone(outcome)
  \/ \E isAudio \in BOOLEAN : ProvMessage(isAudio)
  \/ ProvEnd
  \/ \E error_msg \in ErrorMsgs : ProvFail(error_msg)
  \/ FlushDone
  \/ \E res \in {"audio", "empty"} : FallbackDone(res)
  \/ ParWake

TaskStep == \E j \in TaskIds, res \in {"audio", "empty"} : TaskDone(j, res)

FairSpec == Spec /\ WF_vars(SessionStep) /\ WF_vars(TaskStep)

\* ------------------------------------------------------------ a long text
\* One session that has just received, as its first request, an audio_only request
\* whose text splits into LongWords segments; the send of audio_generation_started
\* is in progress.
LongText == [j \in 1..LongWords |-> 400]

LongRequest == [Req("audio_only", TRUE, LongText, 0, 0) EXCEPT !.request_id = 1]

LongInit ==
  /\ conn = "OPEN" /\ closeCode = 0 /\ mode = "agent"
  /\ services_available = [chat |-> TRUE, audio |-> TRUE, teaching |-> TRUE]
  /\ pc = "ao_started"
  /\ cur = LongRequest
  /\ nreq = 1
  /\ conversation_metrics = ZeroMetrics
  /\ sent = <<>>
  /\ pending = [Frame("audio_generation_started") EXCEPT !.request_id = 1]
  /\ chunk_count = 0
  /\ pl = NoPl
  /\ closureSeen = FALSE /\ lateSends = 0 /\ handlerCheck = FALSE
  /\ sessions = <<>>
  /\ wrapper = NoWrapper
  /\ monitor = NoMonitor

LongSpec == LongInit /\ [][Next]_vars

\* ------------------------------------------------------- several sessions
\* websocket_handler runs once per connection, each run as a task of its own: it
\* builds a wrapper and an agent for its connection and runs the agent's router.
\* A handler is a coroutine the router awaits; it is suspended in one send after
\* the other.  The tasks of different connections interleave at their awaits.
NumSessions == 2
MaxSessionRequests == 2

SessionIds == 1..NumSessions
Languages == {"en-IN", "hi-IN"}

\* the values the one-session variables keep in the other specifications
NoOneSession ==
  /\ conn = "OPEN" /\ closeCode = 0 /\ mode = "agent"
  /\ services_available = [chat |-> TRUE, audio |-> TRUE, teaching |-> TRUE]
  /\ pc = "terminated" /\ cur = NoReq /\ nreq = 0
  /\ conversation_metrics = ZeroMetrics
  /\ sent = <<>> /\ pending = NoFrame /\ chunk_count = 0 /\ pl = NoPl
  /\ closureSeen = FALSE /\ lateSends = 0 /\ handlerCheck = FALSE

\* no connection accepted yet
\* the seconds of the clock at which connections are accepted
MaxSecond == 1
Seconds == 0..MaxSecond
NoClient == -1

NoSession ==
  [router |-> "none", handlers |-> {}, nreq |-> 0, total_requests |-> 0,
   audio_requests |-> 0, current_language |-> "en-IN", message_count |-> 0,
   client_id |-> NoClient]

\* f"profai_client_{int(connection_start_time)}"
client_id_of(t) == t

\* ProfAIWebSocketWrapper.__init__ and ProfAIAgent.__init__, then the send of
\* connection_ready begins
NewSession(t) ==
  [NoSession EXCEPT !.router = "ready", !.message_count = 1, !.client_id = client_id_of(t)]

\* the request carries no language field
NoLanguage == "absent"

SessionRequests ==
  {[kind |-> k, language |-> NoLanguage] : k \in {"ping", "get_metrics"}}
  \cup {[kind |-> k, language |-> l] :
          k \in {"audio_only", "set_language"}, l \in Languages \cup {NoLanguage}}

\* the sends a handler is suspended in, one after the other
Awaits(kind) == IF kind = "audio_only" THEN 3 ELSE 1

\* data.get("language", self.current_language); handle_set_language reads
\* data.get("language")
request_language(s, req) ==
  IF req.language = NoLanguage /\ req.kind # "set_language" THEN s.current_language
  ELSE req.language

\* the frame of a handler's first send
first_frame(req) ==
  CASE req.kind = "ping" -> "pong"
    [] req.kind = "get_metrics" -> "metrics_response"
    [] req.kind = "audio_only" -> "audio_generation_started"
    [] req.kind = "set_language" ->
         IF req.language = NoLanguage THEN "error" ELSE "language_set"

\* the handler is started as a task and the router goes on to its next receive
router_dispatch_spawn(s, h) == [s EXCEPT !.handlers = @ \cup {h}]

\* process_messages: `await self.handle_...(data)`
router_dispatch(s, h) == [s EXCEPT !.handlers = @ \cup {h}, !.router = "await"]

\* the language answered and not stored
handler_enter_forgets(s, req) == [s EXCEPT !.message_count = @ + 1]

\* a handler runs up to its first send
handler_enter(s, req) ==
  [s EXCEPT !.current_language =
              IF req.kind = "set_language" /\ req.language # NoLanguage THEN req.language
              ELSE @,
            !.message_count = @ + 1]

\* a handler returns to the router
handler_return(s, h) ==
  LET counted == h.kind = "audio_only"
  IN [s EXCEPT !.handlers = @ \ {h}, !.router = "recv",
               !.total_requests = IF counted THEN @ + 1 ELSE @,
               !.audio_requests = IF counted THEN @ + 1 ELSE @]

\* a connection is accepted at second t of a clock that does not run backwards
Accept(i, t) ==
  /\ sessions[i].router = "none"
  /\ \A j \in SessionIds : sessions[j].client_id <= t
  /\ sessions' = [sessions EXCEPT ![i] = NewSession(t)]
  /\ UNCHANGED <<SessionVars, wrapper, monitor>>

\* connection_ready has been sent: the router calls recv
ReadySent(i) ==
  /\ sessions[i].router = "ready"
  /\ sessions' = [sessions EXCEPT ![i].router = "recv"]
  /\ UNCHANGED <<SessionVars, wrapper, monitor>>

\* recv returns a frame and the router calls its handler
RouterRecv(i, req) ==
  /\ sessions[i].router = "recv"
  /\ sessions[i].nreq < MaxSessionRequests
  /\ LET s == sessions[i]
         h == [n |-> s.nreq + 1, kind |-> req.kind, left |-> Awaits(req.kind),
               given |-> req.language, language |-> request_language(s, req),
               frame |-> first_frame(req)]
     IN sessions' = [sessions EXCEPT
                       ![i] = router_dispatch(handler_enter([s EXCEPT !.nreq = @ + 1], req), h)]
  /\ UNCHANGED <<SessionVars, wrapper, monitor>>

\* a send of a handler completes: the handler goes on to its next send or returns
HandlerResume(i, h) ==
  /\ h \in sessions[i].handlers
  /\ sessions[i].router # "terminated"
  /\ LET s == sessions[i]
     IN sessions' = [sessions EXCEPT
          ![i] = IF h.left > 1
                 THEN [s EXCEPT !.handlers =
                                  (@ \ {h}) \cup
                                  {[h EXCEPT !.left = @ - 1,
                                             !.frame = IF h.left = 3 THEN "audio_chunk"
                                                       ELSE "audio_generation_complete"]},
                                !.message_count = @ + 1]
                 ELSE handler_return(s, h)]
  /\ UNCHANGED <<SessionVars, wrapper, monitor>>

\* the connection closes: the pending send or receive raises, the router leaves its loop
PeerClose(i) ==
  /\ sessions[i].router \in {"ready", "recv", "await"}
  /\ sessions' = [sessions EXCEPT ![i].router = "terminated", ![i].handlers = {}]
  /\ UNCHANGED <<SessionVars, wrapper, monitor>>

MultiInit ==
  /\ NoOneSession
  /\ sessions = [i \in SessionIds |-> NoSession]
  /\ wrapper = NoWrapper
  /\ monitor = NoMonitor

MultiNext ==
  \E i \in SessionIds :
    \/ \E t \in Seconds : Accept(i, t)
    \/ ReadySent(i)
    \/ \E req \in SessionRequests : RouterRecv(i, req)
    \/ \E h \in sessions[i].handlers : HandlerResume(i, h)
    \/ PeerClose(i)

MultiSpec == MultiInit /\ [][MultiNext]_vars

\* ------------------------------------------------------------- the wrapper
\* One ProfAIWebSocketWrapper driven by an arbitrary caller.  A message is a dict, a
\* string holding a JSON object, a string holding a JSON array, or a string that
\* is not JSON; a frame handed to the transport is an object or an array, with or
\* without the client_id and timestamp the wrapper adds.
MaxSends == 3

Messages == {"dict", "str_object", "str_array", "str_invalid"}

NewWrapper ==
  [pc |-> "idle", transport |-> "OPEN", message_count |-> 0, calls |-> 0,
   in_flight |-> <<>>, handed |-> <<>>, transport_sends |-> 0, transport_closes |-> 0,
   failed |-> 0, result |-> "none"]

\* json.loads(message) for a string, the message itself otherwise
Parsed(message) ==
  CASE message \in {"dict", "str_object"} -> "object"
    [] message = "str_array" -> "array"
    [] OTHER -> "invalid"

\* send: data gets client_id and timestamp when it is a dict
Enriched(data) ==
  [kind |-> data, client_id |-> data = "object", timestamp |-> data = "object"]

\* send, up to `await self.websocket.send(message)`; `at` is the await it waits in
send_enter(w, message, at) ==
  IF Parsed(message) = "invalid"
  THEN [w EXCEPT !.result = "JSONDecodeError", !.pc = IF at = "send" THEN "idle" ELSE "closed"]
  ELSE [w EXCEPT !.message_count = @ + 1, !.transport_sends = @ + 1,
                 !.in_flight = <<Enriched(Parsed(message))>>, !.pc = at, !.result = "none"]

\* close: the except clause that ignores every error of the cleanup
close_except(w) == [w EXCEPT !.pc = "closed", !.in_flight = <<>>, !.result = "returned"]

\* send: the transport has taken the frame
send_done(w) ==
  LET w1 == [w EXCEPT !.handed = @ \o w.in_flight, !.in_flight = <<>>]
  IN IF w.pc = "send" THEN [w1 EXCEPT !.pc = "idle", !.result = "returned"]
     ELSE [w1 EXCEPT !.pc = "close_transport", !.transport_closes = @ + 1]

\* the send tried a second time before giving up
send_raise_retry(w) ==
  LET w1 == [w EXCEPT !.failed = @ + 1, !.in_flight = <<>>, !.transport_sends = @ + 1]
  IN IF w.pc = "send" THEN [w1 EXCEPT !.pc = "idle", !.result = "ConnectionClosed"]
     ELSE close_except(w1)

\* send: except ConnectionClosed, log and raise
send_raise(w) ==
  LET w1 == [w EXCEPT !.failed = @ + 1, !.in_flight = <<>>]
  IN IF w.pc = "send" THEN [w1 EXCEPT !.pc = "idle", !.result = "ConnectionClosed"]
     ELSE close_except(w1)

\* the caller calls send(message)
WrapperSend(message) ==
  /\ wrapper.pc = "idle"
  /\ wrapper.calls < MaxSends
  /\ wrapper' = send_enter([wrapper EXCEPT !.calls = @ + 1], message, "send")
  /\ UNCHANGED <<SessionVars, sessions, monitor>>

\* the caller calls close(): the connection_closing frame is sent first
WrapperClose ==
  /\ wrapper.pc = "idle"
  /\ wrapper' = send_enter(wrapper, "dict", "close_send")
  /\ UNCHANGED <<SessionVars, sessions, monitor>>

\* websocket.send returns
TransportSendDone ==
  /\ wrapper.pc \in {"send", "close_send"}
  /\ wrapper.transport = "OPEN"
  /\ wrapper' = send_done(wrapper)
  /\ UNCHANGED <<SessionVars, sessions, monitor>>

\* websocket.send raises ConnectionClosed
TransportSendRaise ==
  /\ wrapper.pc \in {"send", "close_send"}
  /\ wrapper.transport = "CLOSED"
  /\ wrapper' = send_raise(wrapper)
  /\ UNCHANGED <<SessionVars, sessions, monitor>>

\* websocket.close returns, and close with it
TransportCloseDone ==
  /\ wrapper.pc = "close_transport"
  /\ wrapper' = [wrapper EXCEPT !.pc = "closed", !.transport = "CLOSED",
                                !.result = "returned"]
  /\ UNCHANGED <<SessionVars, sessions, monitor>>

\* the peer or the network closes the connection
TransportLost ==
  /\ wrapper.pc \notin {"none", "closed"}
  /\ wrapper.transport = "OPEN"
  /\ wrapper' = [wrapper EXCEPT !.transport = "CLOSED"]
  /\ UNCHANGED <<SessionVars, sessions, monitor>>

WrapperInit ==
  /\ NoOneSession
  /\ sessions = <<>>
  /\ wrapper = NewWrapper
  /\ monitor = NoMonitor

WrapperNext ==
  \/ \E message \in Messages : WrapperSend(message)
  \/ WrapperClose
  \/ TransportSendDone
  \/ TransportSendRaise
  \/ TransportCloseDone
  \/ TransportLost

WrapperSpec == WrapperInit /\ [][WrapperNext]_vars

\* ------------------------------------------------- the connection monitor
\* The functions of utils/connection_monitor.py applied to every handle and
\* every closure.  monitor.between is the answer of is_client_connected on the
\* handles between OPEN and CLOSED, fixed once and for all.
NewMonitor(between) ==
  [op |-> "created", pc |-> "idle", between |-> between,
   h |-> NoHandle, e |-> [cls |-> "Exception", code |-> NoCode],
   normal |-> FALSE, abnormal |-> FALSE, classification |-> "UNKNOWN",
   connected |-> FALSE, disconnected |-> FALSE, continue |-> FALSE, valid |-> FALSE,
   transport_sends |-> 0, frames_sent |-> 0, result |-> FALSE]

\* send_chunk_safely up to its await: the connection is checked first
send_chunk_safely_unchecked(m, h) ==
  [m EXCEPT !.op = "send_chunk_safely", !.h = h, !.pc = "sending",
            !.transport_sends = 1, !.frames_sent = 0, !.result = FALSE]
send_chunk_safely(m, h) ==
  IF ~is_client_connected(h)
  THEN [m EXCEPT !.op = "send_chunk_safely", !.h = h, !.pc = "idle",
                 !.transport_sends = 0, !.frames_sent = 0, !.result = FALSE]
  ELSE [m EXCEPT !.op = "send_chunk_safely", !.h = h, !.pc = "sending",
                 !.transport_sends = 1, !.frames_sent = 0, !.result = FALSE]

\* is_normal_closure, is_abnormal_disconnection and the classification of e
ClassifyClosure(e) ==
  /\ monitor.op # "none" /\ monitor.pc = "idle"
  /\ monitor' = [monitor EXCEPT !.op = "classify", !.e = e,
                                !.normal = is_normal_closure(e),
                                !.abnormal = is_abnormal_disconnection(e),
                                !.classification = classify_closure(e)]
  /\ UNCHANGED <<SessionVars, sessions, wrapper>>

\* the four connection queries on h
CheckConnection(h) ==
  /\ monitor.op # "none" /\ monitor.pc = "idle"
  /\ monitor' = [monitor EXCEPT !.op = "check", !.h = h,
                                !.connected = is_client_connected(h),
                                !.disconnected = is_client_disconnected(h),
                                !.continue = should_continue_streaming(h),
                                !.valid = validate_connection_before_operation(h)]
  /\ UNCHANGED <<SessionVars, sessions, wrapper>>

SendChunkSafely(h) ==
  /\ monitor.op # "none" /\ monitor.pc = "idle"
  /\ monitor' = send_chunk_safely(monitor, h)
  /\ UNCHANGED <<SessionVars, sessions, wrapper>>

\* the transport took the frame: send_chunk_safely returns True
ChunkSendDone ==
  /\ monitor.pc = "sending"
  /\ monitor' = [monitor EXCEPT !.pc = "idle", !.frames_sent = 1, !.result = TRUE]
  /\ UNCHANGED <<SessionVars, sessions, wrapper>>

\* the transport raised e (a closure or another exception): it is caught and
\* send_chunk_safely returns False
ChunkSendRaise(e) ==
  /\ monitor.pc = "sending"
  /\ monitor' = [monitor EXCEPT !.pc = "idle", !.e = e, !.result = FALSE]
  /\ UNCHANGED <<SessionVars, sessions, wrapper>>

MonitorInit ==
  /\ NoOneSession
  /\ sessions = <<>>
  /\ wrapper = NoWrapper
  /\ \E between \in [Between -> BOOLEAN] : monitor = NewMonitor(between)

MonitorNext ==
  \/ \E e \in Closures : ClassifyClosure(e)
  \/ \E h \in Handles : CheckConnection(h)
  \/ \E h \in Handles : SendChunkSafely(h)
  \/ ChunkSendDone
  \/ \E e \in Closures : ChunkSendRaise(e)

MonitorSpec == MonitorInit /\ [][MonitorNext]_vars

\* ---- ConnectionStateMonitor
\* One ConnectionStateMonitor and the calls of an arbitrary caller.
MaxRecords == 3
ChunkBytes == {0, 1024}

NewConnectionStateMonitor ==
  [op |-> "monitor_created", records |-> 0, chunks_sent |-> 0, bytes_sent |-> 0,
   normal_disconnections |-> 0, error_disconnections |-> 0]

record_chunk_sent(m, n) ==
  [m EXCEPT !.chunks_sent = @ + 1, !.bytes_sent = @ + n]

record_disconnection(m, e) ==
  IF is_normal_closure(e) THEN [m EXCEPT !.normal_disconnections = @ + 1]
  ELSE [m EXCEPT !.error_disconnections = @ + 1]

\* get_metrics()["total_disconnections"]
total_disconnections(m) == m.normal_disconnections + m.error_disconnections

RecordChunkSent(n) ==
  /\ monitor.op # "none" /\ monitor.records < MaxRecords
  /\ monitor' = record_chunk_sent([monitor EXCEPT !.op = "record_chunk_sent",
                                                  !.records = @ + 1], n)
  /\ UNCHANGED <<SessionVars, sessions, wrapper>>

RecordDisconnection(e) ==
  /\ monitor.op # "none" /\ monitor.records < MaxRecords
  /\ monitor' = record_disconnection([monitor EXCEPT !.op = "record_disconnection",
                                                     !.records = @ + 1], e)
  /\ UNCHANGED <<SessionVars, sessions, wrapper>>

CounterInit ==
  /\ NoOneSession
  /\ sessions = <<>>
  /\ wrapper = NoWrapper
  /\ monitor = NewConnectionStateMonitor

CounterNext ==
  \/ \E n \in ChunkBytes : RecordChunkSent(n)
  \/ \E e \in Closures : RecordDisconnection(e)

CounterSpec == CounterInit /\ [][CounterNext]_vars

\* ---- text splitting
\* SarvamService's two splitting functions applied to a text of short words and
\* one long word, under several values of max_chunk_size.
MaxSplitWords == 4
SplitWordLens == {1, 2, 3, 7}
SplitSizes == 3..6
SplitTexts == SeqsUpTo(SplitWordLens, MaxSplitWords)

\* no router: the session variables but the audio service's
NoRouter ==
  /\ conn = "OPEN" /\ closeCode = 0 /\ mode = "agent"
  /\ services_available = [chat |-> TRUE, audio |-> TRUE, teaching |-> TRUE]
  /\ pc = "terminated" /\ cur = NoReq /\ nreq = 0
  /\ conversation_metrics = ZeroMetrics
  /\ sent = <<>> /\ pending = NoFrame /\ chunk_count = 0
  /\ closureSeen = FALSE /\ lateSends = 0 /\ handlerCheck = FALSE

ServiceUnchanged ==
  UNCHANGED <<conn, closeCode, mode, services_available, pc, cur, nreq,
              conversation_metrics, sent, pending, chunk_count,
              closureSeen, lateSends, handlerCheck, sessions, wrapper, monitor>>

SplitInit ==
  /\ NoRouter
  /\ sessions = <<>> /\ wrapper = NoWrapper /\ monitor = NoMonitor
  /\ \E text \in SplitTexts, max_chunk_size \in SplitSizes :
       pl = [op |-> "text", text |-> text, max_chunk_size |-> max_chunk_size,
             chunks |-> <<>>]

SplitTextFast ==
  /\ pl.op = "text"
  /\ pl' = [pl EXCEPT !.op = "_split_text_fast",
                      !.chunks = split_text_fast(pl.text, pl.max_chunk_size)]
  /\ ServiceUnchanged

SplitTextForImmediateStreaming ==
  /\ pl.op = "text"
  /\ pl' = [pl EXCEPT !.op = "_split_text_for_immediate_streaming",
                      !.chunks = split_text_for_immediate_streaming(pl.text,
                                                                    pl.max_chunk_size)]
  /\ ServiceUnchanged

SplitNext == SplitTextFast \/ SplitTextForImmediateStreaming

SplitSpec == SplitInit /\ [][SplitNext]_vars

\* ---- generate_audio, the non-streaming path
\* One call of SarvamService.generate_audio on a cleaned text of words of
\* ParWordLen characters; the synthesis calls finish in any order and each returns
\* audio, an empty buffer or (as a gathered result) an exception.
MaxParWords == 6
ParWordLen == 1000
SingleLimit == 2500
SmallBatchLimit == 6000
SmallBatchChunk == 2000
LargeBatchChunk == 2500

ParTexts == {[j \in 1..n |-> ParWordLen] : n \in 1..MaxParWords}
CallResults == {"audio", "empty", "exception"}

Min(a, b) == IF a <= b THEN a ELSE b

\* min(4, len(chunks))
max_concurrent(chunks) == Min(SynthesisCap, Len(chunks))

\* chunks[i:i + max_concurrent], as indices
Batch(p) == {j \in DOMAIN p.chunks : p.i <= j /\ j < p.i + max_concurrent(p.chunks)}

RECURSIVE AudioInOrder(_, _, _)
AudioInOrder(p, j, last) ==
  IF j > last THEN <<>>
  ELSE (IF p.tasks[j] = "audio" THEN <<j>> ELSE <<>>) \o AudioInOrder(p, j + 1, last)

\* the results of the batch combined in the order the calls finished
batch_audio_as_completed(p) == SelectSeq(p.order, LAMBDA j : p.tasks[j] = "audio")

\* the results of gather, combined in the order of the batch
batch_audio(p) ==
  AudioInOrder(p, p.i, Min(p.i + max_concurrent(p.chunks) - 1, Len(p.chunks)))

\* the tasks of the batch that starts at chunk i are created
create_batch(p, i) ==
  LET q == [p EXCEPT !.i = i]
  IN [q EXCEPT !.op = "gather", !.order = <<>>,
               !.tasks = [j \in DOMAIN p.chunks |->
                            IF j \in Batch(q) THEN "running" ELSE p.tasks[j]]]

generate_audio_parallel_chunks(p, size) ==
  LET chunks == split_text_fast(p.text, size)
  IN create_batch([p EXCEPT !.chunks = chunks,
                            !.tasks = [j \in DOMAIN chunks |-> "todo"]], 1)

ParInit ==
  /\ NoRouter
  /\ sessions = <<>> /\ wrapper = NoWrapper /\ monitor = NoMonitor
  /\ \E text \in ParTexts :
       pl = [op |-> "generate_audio", text |-> text, chunks |-> <<>>, i |-> 0,
             tasks |-> <<>>, order |-> <<>>, all_audio_bytes |-> <<>>]

\* generate_audio: the text is routed by its length
GenerateAudio ==
  /\ pl.op = "generate_audio"
  /\ pl' = IF TextLen(pl.text) <= SingleLimit THEN [pl EXCEPT !.op = "single"]
           ELSE IF TextLen(pl.text) <= SmallBatchLimit
           THEN generate_audio_parallel_chunks(pl, SmallBatchChunk)
           ELSE generate_audio_parallel_chunks(pl, LargeBatchChunk)
  /\ ServiceUnchanged

\* _generate_audio_single on the whole text has returned
SingleDone(res) ==
  /\ pl.op = "single"
  /\ pl' = [pl EXCEPT !.op = "returned",
                      !.all_audio_bytes = IF res = "audio" THEN <<0>> ELSE <<>>]
  /\ ServiceUnchanged

\* the synthesis call of chunk j has finished
CallDone(j, res) ==
  /\ pl.op = "gather"
  /\ j \in DOMAIN pl.tasks
  /\ pl.tasks[j] = "running"
  /\ pl' = [pl EXCEPT !.tasks[j] = res, !.order = Append(@, j)]
  /\ ServiceUnchanged

\* gather has returned: the results are combined and the next batch is started
GatherDone ==
  /\ pl.op = "gather"
  /\ \A j \in Batch(pl) : pl.tasks[j] # "running"
  /\ LET p == [pl EXCEPT !.all_audio_bytes = @ \o batch_audio(pl)]
         next == pl.i + max_concurrent(pl.chunks)
     IN pl' = IF next <= Len(pl.chunks) THEN create_batch(p, next)
              ELSE [p EXCEPT !.op = "returned"]
  /\ ServiceUnchanged

ParNext ==
  \/ GenerateAudio
  \/ \E res \in CallResults \ {"exception"} : SingleDone(res)
  \/ \E j \in 1..MaxParWords, res \in CallResults : CallDone(j, res)
  \/ GatherDone

ParSpec == ParInit /\ [][ParNext]_vars

\* The session's ConnectionStateMonitor: ProfAIAgent creates none (the class is
\* imported and never instantiated) and no handler calls record_disconnection,
\* so the counters a session would report stay as a new monitor has them.
session_monitor == NewConnectionStateMonitor

\* ================================================================== claims
\* the audio of the fallback: _generate_audio_single is given the whole text of the
\* first segment, so its audio is that of the whole segment
FallbackChunk == <<1, 0>>

\* C1 as stated: a text whose normalized length is at most chunk_size costs exactly
\* one synthesis call under every provider outcome, and the chunks yielded are
\* exactly the provider's chunks in provider order (no liveness check having
\* reported disconnection).
C1_ExactlyOneCall ==
  (pl.state = "end" /\ pl.len <= chunk_size /\ pl.reported = "none")
    => (pl.calls = 1 /\ pl.forwarded = pl.provided)

\* C1 amended: such a text takes the direct path with no fan-out; unless the check
\* at the start reports disconnection (then no call) exactly one streaming call is
\* made, and at most one more call, the fallback after a provider failure; the
\* chunks yielded are the provider's chunks in provider order, followed by the
\* fallback's audio if there is any; when the provider did not fail, exactly one
\* call was made and exactly the provider's chunks were yielded.
C1_OneStreamingCall ==
  (pl.state # "none" /\ pl.len <= chunk_size) =>
    /\ pl.tasks = <<>>
    /\ pl.reported # "start" => pl.path = "direct" /\ pl.calls - pl.fallbacks = 1
    /\ pl.reported = "start" => pl.calls = 0
    /\ pl.fallbacks <= 1
    /\ pl.forwarded \in {pl.provided, Append(pl.provided, FallbackChunk)}
    /\ pl.fallbacks = 0 => pl.forwarded = pl.provided

\* a short text, the provider's two chunks yielded in order after one call
C1_Witness ==
  /\ pl.state = "end" /\ pl.len > 0 /\ pl.len <= chunk_size
  /\ pl.calls = 1 /\ pl.forwarded = <<<<1, 1>>, <<1, 2>>>> /\ pl.provided = pl.forwarded

\* C2 as stated: on the multi-segment path the first chunk the pipeline forwards
\* comes from the first text segment, whatever the completion order of the later
\* segments and whatever the outcome of the first segment's synthesis.
C2_FirstChunkFromFirstSegment ==
  (pl.path = "immediate" /\ pl.forwarded # <<>>) => pl.forwarded[1][1] = 1

\* the first segment's stream failed, its fallback returned nothing, the fan-out
\* was started all the same and a later segment's audio is the first chunk
C2_LaterSegmentFirst ==
  /\ pl.path = "immediate" /\ pl.fallbacks = 1 /\ pl.provided = <<>>
  /\ pl.forwarded # <<>> /\ pl.forwarded[1][1] > 1

\* C3 as stated: if a liveness check (the one at the start of the pipeline or any
\* later one) reports disconnection before any chunk has been forwarded, zero
\* synthesis calls are attempted for the request.
C3_ZeroCalls ==
  (pl.reported # "none" /\ pl.forwarded = <<>>) => pl.calls = 0

\* C3 amended: if the check at the start of the pipeline reports disconnection, no
\* synthesis call is attempted and nothing is forwarded; every later check point
\* comes after a call has been started; and a synthesis call is only ever started
\* while the client is connected and no check has reported disconnection.
C3_NoCallOnceDisconnected ==
  /\ [](pl.reported = "start" => (pl.calls = 0 /\ pl.forwarded = <<>>))
  /\ [](pl.reported \notin {"none", "start"} => pl.calls >= 1)
  /\ [][pl'.calls > pl.calls =>
         (conn = "OPEN" /\ pl.reported = "none" /\ pl'.reported = "none")]_vars

\* the check at the start has reported disconnection: the generator ended at once
C3_Witness ==
  /\ pl.state = "end" /\ pl.reported = "start" /\ pl.calls = 0 /\ pl.len > 0
  /\ conn = "CLOSED"

DisconnectionReported == pl.reported # "none" \/ handlerCheck

RunningTasks == {j \in DOMAIN pl.tasks : pl.tasks[j] = "running"}

\* C4 as stated: once a liveness check (the generator's or the handler's) has
\* reported disconnection mid-stream, no fan-out task is left outstanding (all are
\* cancelled), no chunk is forwarded any more and no provider call is started.
C4_StopAndCancel ==
  /\ [](DisconnectionReported => RunningTasks = {})
  /\ [][DisconnectionReported =>
         (pl'.forwarded = pl.forwarded /\ pl'.calls = pl.calls)]_vars

\* the chat handler's own check has reported disconnection and left the loop: the
\* generator is abandoned at its yield and a fan-out task is still running
C4_TasksLeftRunning ==
  /\ handlerCheck /\ pl.state = "abandoned" /\ pl.reported = "none"
  /\ RunningTasks # {}

\* C5 as stated: once a send, a receive or a liveness check has reported that the
\* connection is closed, the session attempts no further send of any frame; in
\* particular no handler tries to send an error frame after catching a closure.
C5_NoSendAfterClosure == lateSends = 0

\* handle_audio_only: a send has raised ConnectionClosed and both except clauses
\* have tried to send an error frame on the closed connection
C5_ErrorFramesAfterClosure ==
  /\ cur.type = "audio_only" /\ conn = "CLOSED" /\ closureSeen /\ lateSends = 2

TerminalFrames ==
  {"error", "pong", "audio_generation_complete", "class_complete",
   "transcription_complete", "language_set", "metrics_response"}

Handling == nreq > 0 /\ pc \notin {"recv", "terminated"}

Answered == sent # <<>> /\ sent[Len(sent)].type \in TerminalFrames

KindCounters == {"chat_requests", "audio_requests", "teaching_requests"}

\* C7: in every state of the session total_requests and the per-kind counters
\* never decrease, and total_requests = chat_requests + audio_requests +
\* teaching_requests.
C7_MetricsMonotoneAndSummed ==
  /\ [](conversation_metrics.total_requests =
          conversation_metrics.chat_requests + conversation_metrics.audio_requests
            + conversation_metrics.teaching_requests)
  /\ [][\A k \in KindCounters \cup {"total_requests"} :
           conversation_metrics'[k] >= conversation_metrics[k]]_vars

\* two requests of different kinds have been counted
C7_Witness ==
  /\ conversation_metrics.total_requests = 2
  /\ conversation_metrics.chat_requests = 1
  /\ conversation_metrics.teaching_requests = 1

RequestKinds ==
  {"ping", "chat_with_audio", "start_class", "audio_only", "transcribe_audio",
   "set_language", "get_metrics"}

KindCounter(t) ==
  CASE t = "chat_with_audio" -> "chat_requests"
    [] t = "audio_only" -> "audio_requests"
    [] t = "start_class" -> "teaching_requests"

\* C8 as stated: every completed request, whatever its kind and whichever way its
\* handler exits (success, validation error, capability timeout or failure), adds
\* exactly one to total_requests and to the counter of its kind: the step in which
\* a handler returns to the router's receive is the step that counts the request.
C8_CountedOncePerRequest ==
  [][(pc # "recv" /\ pc' = "recv" /\ cur'.type \in RequestKinds) =>
       /\ conversation_metrics'.total_requests = conversation_metrics.total_requests + 1
       /\ cur'.type \in {"chat_with_audio", "audio_only", "start_class"} =>
            conversation_metrics'[KindCounter(cur'.type)] =
              conversation_metrics[KindCounter(cur'.type)] + 1]_vars

\* a chat request whose text generation failed or timed out has been answered by
\* an error frame on an open connection and is counted nowhere
C8_FailedChatNotCounted ==
  /\ pc = "recv" /\ conn = "OPEN" /\ nreq = 1 /\ cur.type = "chat_with_audio" /\ cur.has
  /\ Len(sent) = 2 /\ sent[1].type = "processing_started" /\ sent[2].type = "error"
  /\ conversation_metrics = ZeroMetrics

\* the step in which the session first learns that the connection is closed
ClosureDetected == ~closureSeen /\ closureSeen'

\* the router's own sends that are outside every handler and whose failure ends
\* the loop without passing through `except ConnectionClosed`
RouterSends == {"ready", "r_err_json", "r_err_proc"}

\* C9 as stated: wherever the session detects the closure (the router's receive, a
\* send inside any handler, a liveness check during streaming), a normal closure
\* (1000/1001) leaves the errors counter unchanged and an abnormal one increments
\* it.
C9_OnlyAbnormalClosureCounted ==
  [][(ClosureDetected /\ mode = "agent" /\ pc \notin RouterSends) =>
       IF is_normal_closure(ReceivedClosure)
       THEN conversation_metrics'.errors = conversation_metrics.errors
       ELSE conversation_metrics'.errors > conversation_metrics.errors]_vars

\* the client closed with code 1000 during an audio_only request and the handler
\* counted an error
C9_NormalClosureCounted ==
  /\ cur.type = "audio_only" /\ conn = "CLOSED" /\ closeCode = 1000
  /\ conversation_metrics.errors = 1

\* C10: a ping received on an open connection is answered, in agent mode and in
\* basic mode alike and whatever capabilities are available, by the send of one
\* pong frame carrying server_time; no other frame is sent for it, and when the
\* session is back at its receive exactly that one pong has gone out.
C10_PingPong ==
  /\ [][(pc = "recv" /\ nreq' = nreq + 1 /\ cur'.type = "ping") =>
         (pc' \in {"ping_pong", "b_pong"} /\ pending' = PongFrame /\ sent' = <<>>)]_vars
  /\ [](cur.type = "ping" =>
          (/\ sent \in {<<>>, <<PongFrame>>}
           /\ pending \in {NoFrame, PongFrame}
           /\ pc \in {"ping_pong", "b_pong", "recv", "terminated"}))
  /\ []((cur.type = "ping" /\ pc = "recv") => sent = <<PongFrame>>)

\* a second request, a ping, answered by an agent none of whose capabilities is
\* available
C10_Witness ==
  /\ mode = "agent" /\ nreq = 2 /\ cur.type = "ping" /\ pc = "recv" /\ conn = "OPEN"
  /\ services_available = [chat |-> FALSE, audio |-> FALSE, teaching |-> FALSE]
  /\ sent = <<PongFrame>>

\* a step in which the router, calling receive again, finds the connection closed
\* and leaves its loop (the accounting of that closure is the router's)
ClosureAccounted == conn = "CLOSED" /\ pc' = "terminated"

InvalidJsonFrame == ErrorFrame(<<"Invalid JSON message">>)

\* C11: a frame that is not parseable JSON is answered, in agent mode and in basic
\* mode alike, by the send of exactly one error frame ("Invalid JSON message"); no
\* handler is entered (the session waits only in that send, in the receive, or has
\* ended because the connection closed), the counters, the chunk counter and the
\* audio generator are left as they were, and as long as the connection is open the
\* session is not ended: it is back at its receive once that one frame has gone out.
C11_MalformedJson ==
  /\ [][(pc = "recv" /\ nreq' = nreq + 1 /\ cur'.type = "badjson") =>
         /\ pc' \in {"r_err_json", "b_err_json"}
         /\ pending' = InvalidJsonFrame
         /\ sent' = <<>>]_vars
  /\ [][cur'.type = "badjson" =>
         /\ conversation_metrics' = conversation_metrics \/ ClosureAccounted
         /\ pl' = NoPl /\ chunk_count' = 0]_vars
  /\ [](cur.type = "badjson" =>
          /\ sent \in {<<>>, <<InvalidJsonFrame>>}
          /\ pending \in {NoFrame, InvalidJsonFrame}
          /\ pc \in {"r_err_json", "b_err_json", "recv", "terminated"}
          /\ pc = "recv" => sent = <<InvalidJsonFrame>>
          /\ conn = "OPEN" => pc # "terminated")

\* the second frame of a session is malformed, after a chat request that was
\* counted: the error frame has gone out, the counters are as the chat left them
\* and the agent is back at its receive
C11_Witness ==
  /\ mode = "agent" /\ nreq = 2 /\ cur.type = "badjson" /\ pc = "recv" /\ conn = "OPEN"
  /\ sent = <<InvalidJsonFrame>>
  /\ conversation_metrics.chat_requests = 1 /\ conversation_metrics.errors = 0

UnknownTypes == {"unknown", "subscribe"}

UnknownTypeFrame(t) ==
  IF mode = "agent" THEN ErrorFrame(<<"Unknown message type", t>>)
  ELSE ErrorFrame(<<"Service not available in basic mode", t>>)

\* C12: a request whose type is a value other than the seven supported kinds is
\* answered by the send of exactly one error frame whose text names the received
\* type; no handler is entered, the counters are left as they were, and as long as
\* the connection is open the session is back at its receive once that one frame has
\* gone out.  (An empty or otherwise false type value is treated as a missing type.)
C12_UnknownType ==
  /\ [][(pc = "recv" /\ nreq' = nreq + 1 /\ cur'.type \in UnknownTypes) =>
         /\ pc' \in {"r_err_unknown", "b_err_mode"}
         /\ pending' = UnknownTypeFrame(cur'.type)
         /\ sent' = <<>>]_vars
  /\ [][cur'.type \in UnknownTypes =>
         /\ conversation_metrics' = conversation_metrics \/ ClosureAccounted
         /\ pl' = NoPl /\ chunk_count' = 0]_vars
  /\ [](cur.type \in UnknownTypes =>
          /\ sent \in {<<>>, <<UnknownTypeFrame(cur.type)>>}
          /\ pending \in {NoFrame, UnknownTypeFrame(cur.type)}
          /\ pc \in {"r_err_unknown", "b_err_mode", "recv", "terminated"}
          /\ pc = "recv" => sent = <<UnknownTypeFrame(cur.type)>>
          /\ conn = "OPEN" => pc # "terminated")

\* an agent with every capability available has answered a request of type
\* "subscribe" by one error frame naming that type
C12_Witness ==
  /\ mode = "agent" /\ cur.type = "subscribe" /\ pc = "recv" /\ conn = "OPEN"
  /\ services_available = [chat |-> TRUE, audio |-> TRUE, teaching |-> TRUE]
  /\ sent = <<ErrorFrame(<<"Unknown message type", "subscribe">>)>>

\* C13: within one session at most one request handler is executing at any time,
\* and the router is at its receive only when none is (the next frame is not read
\* until the current handler has returned); the handlers of different sessions run
\* at the same time, and a step of one session leaves the state of every other
\* session (counters, current language, message count, router, handlers) as it was.
C13_OneHandlerPerSession ==
  /\ [](\A i \in SessionIds :
          /\ Cardinality(sessions[i].handlers) <= 1
          /\ sessions[i].router = "recv" => sessions[i].handlers = {}
          /\ sessions[i].router = "await" => sessions[i].handlers # {})
  /\ [][\A i \in SessionIds :
          sessions'[i].nreq > sessions[i].nreq => sessions[i].handlers = {}]_vars
  /\ [][\A i, j \in SessionIds :
          i # j => (sessions'[i] = sessions[i] \/ sessions'[j] = sessions[j])]_vars

\* two sessions each in the middle of a handler at the same time, one of which has
\* set its own language while the other keeps the default
C13_Witness ==
  /\ sessions # <<>>
  /\ sessions[1].handlers # {} /\ sessions[2].handlers # {}
  /\ sessions[1].current_language = "hi-IN" /\ sessions[2].current_language = "en-IN"
  /\ sessions[2].nreq = 2 /\ sessions[2].audio_requests = 1

\* the synthesis calls of the session that have been started and have not finished:
\* the first segment's stream or its fallback, and the fan-out tasks
InFlight ==
  Cardinality(RunningTasks)
    + (IF pc \in {"pl_stream", "pl_flush", "pl_fallback"} THEN 1 ELSE 0)

\* C14 as stated: within one session at no time are more than 4 synthesis calls in
\* flight; when more segments remain than the cap, the excess segments wait until
\* an earlier call has finished (here on the streaming multi-segment path).
C14_AtMostFourInFlight == InFlight <= SynthesisCap

\* the first segment's audio has been sent and the five segments that remain are
\* all being synthesized at once
C14_FiveInFlight ==
  /\ cur.type = "audio_only" /\ nreq = 1 /\ Len(sent) = 2 /\ sent[2].type = "audio_chunk"
  /\ pl.path = "immediate" /\ pl.nseg = LongWords
  /\ Cardinality(RunningTasks) = LongWords - 1 /\ LongWords - 1 > SynthesisCap

\* an audio_only request with non-empty text at most chunk_size long after
\* normalisation has been handled by a session whose speech capability is there,
\* and the session is back at its receive with the connection open
AudioOnlyHandled ==
  /\ pc = "recv" /\ conn = "OPEN" /\ cur.type = "audio_only" /\ cur.has
  /\ pl.state # "none" /\ pl.len <= chunk_size

\* C15 as stated: for such a request the frames sent are, in order, one
\* audio_generation_started, then n >= 1 audio_chunk frames whose chunk_id values
\* are 1, 2, ..., n, then exactly one audio_generation_complete whose total_chunks
\* is n, each carrying the request's request_id.
C15_StartedChunksComplete ==
  AudioOnlyHandled =>
    LET n == Len(sent) - 2
    IN /\ n >= 1
       /\ sent[1] = [Frame("audio_generation_started") EXCEPT !.request_id = cur.request_id]
       /\ \A k \in 1..n : sent[k + 1] = [ChunkFrame(k) EXCEPT !.request_id = cur.request_id]
       /\ sent[n + 2] = [Frame("audio_generation_complete") EXCEPT
                           !.total_chunks = n, !.request_id = cur.request_id]

\* the provider's stream ended without audio: the request was answered by
\* audio_generation_started and then audio_generation_complete with total_chunks 0
C15_CompleteWithoutChunks ==
  /\ AudioOnlyHandled /\ pl.len > 0 /\ pl.provided = <<>> /\ pl.fallbacks = 0
  /\ Len(sent) = 2 /\ sent[1].type = "audio_generation_started"
  /\ sent[2].type = "audio_generation_complete" /\ sent[2].total_chunks = 0

\* C16 as stated: close() attempts one final metrics frame and then releases the
\* transport; a failure of that send is swallowed and the transport is still
\* released: once close() has returned, the transport's close has been invoked,
\* whichever path was taken, and no exception has propagated.
C16_CloseAlwaysReleases ==
  wrapper.pc = "closed" =>
    (wrapper.transport_closes = 1 /\ wrapper.result = "returned")

\* close() has returned after its final send raised ConnectionClosed: the
\* transport's close was never invoked
C16_CloseSkipped ==
  /\ wrapper.pc = "closed" /\ wrapper.result = "returned"
  /\ wrapper.failed = 1 /\ wrapper.transport_closes = 0

C18_ClosureClassification ==
  monitor.op = "classify" =>
    /\ monitor.abnormal = ~monitor.normal
    /\ monitor.classification \in {"NORMAL", "ABNORMAL", "UNKNOWN"}
    /\ monitor.e.cls \in ClosureClasses =>
         /\ monitor.normal = (monitor.e.cls = "ConnectionClosedOK" \/ monitor.e.code \in {1000, 1001})
         /\ monitor.classification = (IF monitor.normal THEN "NORMAL" ELSE "ABNORMAL")
         /\ monitor.e.code = NoCode /\ monitor.e.cls # "ConnectionClosedOK" => monitor.abnormal
    /\ monitor.e.cls \notin ClosureClasses =>
         ~monitor.normal /\ monitor.classification = "UNKNOWN"

\* a ConnectionClosedOK that carries an abnormal code, classified normal
C18_Witness ==
  /\ monitor.op = "classify" /\ monitor.e = [cls |-> "ConnectionClosedOK", code |-> 1006]
  /\ monitor.normal /\ ~monitor.abnormal

\* C19: on every handle, None included, is_client_disconnected is the negation
\* of is_client_connected, and should_continue_streaming and
\* validate_connection_before_operation equal it; None and a CLOSED handle are
\* not connected, an OPEN handle that is not closed is connected.
C19_ConnectionQueries ==
  monitor.op = "check" =>
    /\ monitor.disconnected = ~monitor.connected
    /\ monitor.continue = monitor.connected
    /\ monitor.valid = monitor.connected
    /\ monitor.h = NoHandle => ~monitor.connected
    /\ monitor.h # NoHandle =>
         /\ monitor.h.state = "CLOSED" => ~monitor.connected
         /\ monitor.h.state = "OPEN" /\ ~monitor.h.closed => monitor.connected

\* a handle that is closing and that is_client_connected takes for connected
C19_Witness ==
  /\ monitor.op = "check" /\ monitor.h = [closed |-> FALSE, state |-> "CLOSING"]
  /\ monitor.connected /\ monitor.continue /\ monitor.valid /\ ~monitor.disconnected

\* C20: once send_chunk_safely has returned, no transport send was made and
\* the result is False if the connection was closed, and the result is True
\* exactly when the frame was sent; a transport that raises makes it return
\* False.
C20_SendChunkSafely ==
  monitor.op = "send_chunk_safely" /\ monitor.pc = "idle" =>
    /\ ~is_client_connected(monitor.h) => ~monitor.result /\ monitor.transport_sends = 0
    /\ monitor.result = (monitor.frames_sent = 1)
    /\ monitor.result => is_client_connected(monitor.h) /\ monitor.transport_sends = 1

\* the connection was open at the check and the transport raised: False
C20_Witness ==
  /\ monitor.op = "send_chunk_safely" /\ monitor.pc = "idle"
  /\ monitor.h = [closed |-> FALSE, state |-> "OPEN"]
  /\ monitor.transport_sends = 1 /\ monitor.frames_sent = 0 /\ ~monitor.result

\* the counters of a ConnectionStateMonitor after any sequence of calls: each call
\* moves exactly the counters it names, and the total is the sum
CountersConsistent ==
  /\ [][monitor'.op = "record_disconnection" =>
         \/ /\ monitor'.normal_disconnections = monitor.normal_disconnections + 1
            /\ monitor'.error_disconnections = monitor.error_disconnections
         \/ /\ monitor'.error_disconnections = monitor.error_disconnections + 1
            /\ monitor'.normal_disconnections = monitor.normal_disconnections]_vars
  /\ [][monitor'.op = "record_chunk_sent" =>
         /\ monitor'.chunks_sent = monitor.chunks_sent + 1
         /\ monitor'.bytes_sent >= monitor.bytes_sent
         /\ monitor'.normal_disconnections = monitor.normal_disconnections
         /\ monitor'.error_disconnections = monitor.error_disconnections]_vars
  /\ [](total_disconnections(monitor) + monitor.chunks_sent = monitor.records)

\* the session has ended on a normal closure that came while an audio_only
\* request's generation was in flight
NormalClosureMidAudioOnly ==
  /\ mode = "agent" /\ pc = "terminated" /\ cur.type = "audio_only"
  /\ conn = "CLOSED" /\ closeCode \in NormalCodes
  /\ pl.state = "abandoned"

\* C21 as stated: each record_disconnection increments exactly one of
\* normal_disconnections and error_disconnections, record_chunk_sent increments
\* chunks_sent and bytes_sent, the total is the sum; in particular a normal closure
\* during an in-flight audio_only generation has incremented the session's
\* normal_disconnections and not its error counter.
C21_NormalClosureRecorded ==
  NormalClosureMidAudioOnly =>
    /\ session_monitor.normal_disconnections = 1
    /\ session_monitor.error_disconnections = 0
    /\ conversation_metrics.errors = 0

\* the client closed with code 1000 while chunks were being sent: the session has
\* ended, no normal disconnection is recorded anywhere and an error is counted
C21_NormalClosureUnrecorded ==
  /\ NormalClosureMidAudioOnly /\ closeCode = 1000 /\ nreq = 1
  /\ total_disconnections(session_monitor) = 0
  /\ conversation_metrics.errors = 1

OutOfRange(req) ==
  \/ req.midx \notin 0..(NumModules - 1)
  \/ req.sidx \notin 0..(NumSubTopics - 1)

ClassFrames == {"course_info", "teaching_content", "audio_generation_started",
                "audio_chunk", "class_complete"}

\* C22 as stated: a start_class request whose module_index or sub_topic_index is
\* outside the range of the loaded course (too large, or negative) is answered by
\* an error frame; no course_info, teaching_content or audio frame is sent for it,
\* and the session stays open.
C22_OutOfRangeIsError ==
  /\ [][(pc = "sc_load" /\ pc' # "sc_load" /\ OutOfRange(cur)) =>
         /\ pending'.type \in {"error", "none"}
         /\ conn = "OPEN" => pc' \in {"sc_err_nofile", "sc_err_module", "sc_err_sub",
                                      "sc_err_timeout", "sc_err_load"}]_vars
  /\ []((cur.type = "start_class" /\ OutOfRange(cur)) =>
          /\ pending.type \notin ClassFrames
          /\ \A k \in DOMAIN sent : sent[k].type \notin ClassFrames
          /\ conn = "OPEN" => pc # "terminated")

\* module_index -1 on a course that was loaded: the handler is sending course_info
C22_NegativeIndexAccepted ==
  /\ cur.type = "start_class" /\ cur.midx = -1 /\ cur.sidx = 0
  /\ pc = "sc_info" /\ pending.type = "course_info" /\ conn = "OPEN"
  /\ sent = <<[Frame("class_starting") EXCEPT !.request_id = cur.request_id]>>

ChunkSends == {"ch_chunk", "ao_chunk", "sc_chunk"}

\* the first segment's synthesis is going on, or one of its chunks is with the
\* caller, who has not yet asked for the next
FirstSegmentInProgress ==
  /\ pl.path = "immediate" /\ pl.state = "run"
  /\ \/ pc \in {"pl_stream", "pl_flush", "pl_fallback"}
     \/ pc \in ChunkSends /\ pl.at \in {"stream", "fallback"}

\* C23: on the multi-segment path no synthesis call for a segment other than the
\* first is started while the first segment's synthesis is going on or one of its
\* chunks is still with the caller; the fan-out is started in the step in which
\* the first segment's stream (or its fallback) has ended, and by then every chunk
\* the provider delivered for the first segment has been handed to the caller,
\* ahead of any chunk of a later segment.
C23_FirstSegmentAlone ==
  /\ [](FirstSegmentInProgress => (pl.tasks = <<>> /\ pl.calls = 1 + pl.fallbacks))
  /\ [][(pl.tasks = <<>> /\ pl'.tasks # <<>>) =>
         /\ FirstSegmentInProgress
         /\ pc' \notin {"pl_stream", "pl_flush", "pl_fallback"}
         /\ pl'.calls = pl.calls + pl.nseg - 1]_vars
  /\ [](pl.tasks # <<>> =>
          /\ pl.path = "immediate" /\ Len(pl.forwarded) >= Len(pl.provided)
          /\ SubSeq(pl.forwarded, 1, Len(pl.provided)) = pl.provided)

\* three segments: the first one's two chunks have been handed over and the other
\* two segments are now being synthesized
C23_Witness ==
  /\ pl.path = "immediate" /\ pl.nseg = 3 /\ pl.calls = 3
  /\ pl.provided = <<<<1, 1>>, <<1, 2>>>> /\ pl.forwarded = pl.provided
  /\ Cardinality(RunningTasks) = 2 /\ pc = "pl_par"

AudioOf(q) == SelectSeq(q, LAMBDA d : d[2] = "audio")

\* a step in which the as_completed loop takes finished tasks: the ones that
\* failed are dropped and the audio of the others is forwarded
FailedSegmentDropped ==
  [][(pl'.consumed > pl.consumed /\ pl'.path = "immediate") =>
       LET taken == AudioOf(SubSeq(pl.doneQ, 1, pl'.consumed - pl.consumed))
       IN pl'.forwarded = pl.forwarded \o [k \in 1..Len(taken) |-> <<taken[k][1], 0>>]]_vars

\* C24 as stated: on the multi-segment path a failed segment other than the first
\* is dropped and the segments that remain are still forwarded; a failure of the
\* first segment is fatal to the request: when the first segment has yielded no
\* audio, no synthesis of a later segment is started and no chunk is forwarded.
C24_FirstSegmentFailureFatal ==
  /\ FailedSegmentDropped
  /\ []((pl.path = "immediate" /\ pl.tasks # <<>>) =>
          (pl.forwarded # <<>> /\ pl.forwarded[1][1] = 1))
  /\ []((pl.path = "immediate" /\ pl.forwarded # <<>>) => pl.forwarded[1][1] = 1)

\* the first segment's stream failed and its fallback returned nothing: nothing has
\* been forwarded, and the two segments that remain are being synthesized
C24_FanOutAfterFailedFirst ==
  /\ pl.path = "immediate" /\ pl.nseg = 3 /\ pl.fallbacks = 1
  /\ pl.provided = <<>> /\ pl.forwarded = <<>>
  /\ Cardinality(RunningTasks) = 2 /\ pc = "pl_par" /\ conn = "OPEN"

Forwarded == {pl.forwarded[k] : k \in DOMAIN pl.forwarded}

\* the fallback has been tried and has returned
FallbackOver == pl.fallbacks = 1 /\ pc # "pl_fallback"

\* C25 as stated: after a provider failure that is not a disconnection the pipeline
\* falls back at most once to the single call, on the text not yet sent only, so
\* that no audio forwarded before the failure is synthesized and forwarded a second
\* time; and if the fallback fails too, the sequence ends with no further chunk.
C25_FallbackOnlyUnsent ==
  /\ pl.fallbacks <= 1
  /\ (FallbackOver /\ pl.provided # <<>>) => FallbackChunk \notin Forwarded
  /\ (FallbackOver /\ FallbackChunk \notin Forwarded) => pl.forwarded = pl.provided

\* a short text: the provider delivered a chunk, which was forwarded, then failed;
\* the fallback synthesized the whole text again and its audio was forwarded too
C25_ForwardedTwice ==
  /\ pl.path = "direct" /\ pl.state = "end" /\ pl.fallbacks = 1 /\ pl.calls = 2
  /\ pl.provided = <<<<1, 1>>>> /\ pl.forwarded = <<<<1, 1>>, FallbackChunk>>
  /\ conn = "OPEN"

CompletionFrames == {"audio_generation_complete", "class_complete"}

\* C26 as stated: when the audio pipeline has produced no chunk for a request on an
\* open connection, the handler treats it as a generation failure: it answers with
\* an error frame, and no audio_generation_complete or class_complete frame with
\* total_chunks = 0 is ever sent.
C26_ZeroChunksIsFailure ==
  /\ \A k \in DOMAIN sent :
       sent[k].type \in CompletionFrames => sent[k].total_chunks >= 1
  /\ pending.type \in CompletionFrames => pending.total_chunks >= 1
  /\ (pc = "recv" /\ conn = "OPEN" /\ pl.state = "end" /\ chunk_count = 0) =>
       sent[Len(sent)].type = "error"

\* a class whose audio pipeline ended without a chunk (the provider's stream was
\* empty) has been answered by class_complete with total_chunks 0
C26_ClassCompleteWithoutChunks ==
  /\ cur.type = "start_class" /\ pc = "recv" /\ conn = "OPEN"
  /\ pl.state = "end" /\ pl.forwarded = <<>> /\ pl.len > 0 /\ pl.calls = 1
  /\ sent[Len(sent)] = [Frame("class_complete") EXCEPT !.request_id = cur.request_id]

\* C27 as stated: once the session has ended (the router has left its loop and
\* cleanup has run), no fan-out synthesis task created for the session is still
\* running: every one has finished or has been cancelled, also when the consumer
\* stopped iterating the pipeline because a send raised ConnectionClosed or because
\* it left the chunk loop.
C27_NoTaskSurvivesCleanup == pc = "terminated" => RunningTasks = {}

\* an audio_only request of three segments: the send of a chunk raised
\* ConnectionClosed, the handler left the pipeline suspended at its yield, the
\* router ended and cleanup ran while a segment was still being synthesized
C27_TaskOutlivesSession ==
  /\ pc = "terminated" /\ mode = "agent" /\ conn = "CLOSED" /\ cur.type = "audio_only"
  /\ pl.state = "abandoned" /\ pl.nseg = 3 /\ ~handlerCheck
  /\ RunningTasks # {}

\* the capabilities a request of type t uses
Needs(t) ==
  CASE t = "chat_with_audio" -> {"chat", "audio"}
    [] t = "audio_only" -> {"audio"}
    [] t = "transcribe_audio" -> {"audio"}
    [] t = "start_class" -> {"teaching", "audio"}
    [] OTHER -> {}

Unavailable == {c \in {"chat", "audio", "teaching"} : ~services_available[c]}

\* no call into a capability that is not there is in progress
NoCallWithoutCapability ==
  /\ pc = "ch_llm" => services_available.chat
  /\ pc = "sc_gen" => services_available.teaching
  /\ pc = "ta_stt" => services_available.audio
  /\ pl.state # "none" => services_available.audio

\* C28 as stated: with one capability unavailable the others remain usable; no
\* handler invokes a capability whose entry in the availability map is false; a
\* handler consults the map before it uses a capability and answers with an error
\* frame instead: a request that needs an unavailable capability gets error frames
\* and nothing else.
C28_MapConsultedBeforeUse ==
  /\ NoCallWithoutCapability
  /\ (mode = "agent" /\ Needs(cur.type) \cap Unavailable # {}) =>
       /\ pending.type \in {"error", "none"}
       /\ \A k \in DOMAIN sent : sent[k].type = "error"

\* an agent without its audio capability has answered an audio_only request by
\* audio_generation_started and then an error frame, and has counted the request
C28_StartedThenError ==
  /\ mode = "agent" /\ ~services_available.audio /\ cur.type = "audio_only"
  /\ pc = "recv" /\ conn = "OPEN" /\ pl = NoPl
  /\ Len(sent) = 2 /\ sent[1].type = "audio_generation_started" /\ sent[2].type = "error"
  /\ conversation_metrics.audio_requests = 1

\* C29: an exception that is not a connection closure and reaches the router (a
\* frame that is not a JSON object) is caught: an error frame is handed to the
\* transport, which was open when the frame was read; once that send is over the
\* router awaits the next request if the connection is open and has left its loop
\* if it is closed, and only on a closed connection can the frame remain unsent.
\* The router leaves its loop only when the connection is closed.
C29_RouterSurvivesHandlerError ==
  [][/\ (mode = "agent" /\ pc = "recv" /\ nreq' = nreq + 1 /\ cur'.type = "nondict") =>
          /\ pc' = "r_err_proc"
          /\ pending'.type = "error"
     /\ (pc = "r_err_proc" /\ pc' # pc) =>
          /\ pc' = IF conn = "OPEN" THEN "recv" ELSE "terminated"
          /\ sent' = Append(sent, pending) \/ (conn = "CLOSED" /\ sent' = sent)
     /\ (mode = "agent" /\ pc # "terminated" /\ pc' = "terminated") => conn = "CLOSED"]_vars

\* the error frame of a processing error has been sent and the router, on an open
\* connection, awaits the next request
C29_Witness ==
  /\ mode = "agent" /\ cur.type = "nondict" /\ conn = "OPEN" /\ pc = "recv"
  /\ Len(sent) = 1 /\ sent[1].type = "error"

MissingTypeFrame == ErrorFrame(<<"Message type is required">>)

\* C31: a frame that is a JSON object without a type (or with a false type value)
\* is answered by the send of exactly one error frame ("Message type is required");
\* no handler is entered, the counters, the chunk counter and the audio generator
\* are left as they were, and as long as the connection is open the router is back
\* at its receive once that one frame has gone out.
C31_MissingType ==
  /\ [][(pc = "recv" /\ nreq' = nreq + 1 /\ cur'.type = "notype") =>
         /\ pc' \in {"r_err_notype", "b_err_notype"}
         /\ pending' = MissingTypeFrame
         /\ sent' = <<>>]_vars
  /\ [][cur'.type = "notype" =>
         /\ conversation_metrics' = conversation_metrics \/ ClosureAccounted
         /\ pl' = NoPl /\ chunk_count' = 0]_vars
  /\ [](cur.type = "notype" =>
          /\ sent \in {<<>>, <<MissingTypeFrame>>}
          /\ pending \in {NoFrame, MissingTypeFrame}
          /\ pc \in {"r_err_notype", "b_err_notype", "recv", "terminated"}
          /\ pc = "recv" => sent = <<MissingTypeFrame>>
          /\ conn = "OPEN" => pc # "terminated")

\* the second frame of a session has no type, after an audio_only request that was
\* counted: the error frame has gone out, the counters are as the audio request left
\* them and the agent is back at its receive
C31_Witness ==
  /\ mode = "agent" /\ nreq = 2 /\ cur.type = "notype" /\ pc = "recv" /\ conn = "OPEN"
  /\ sent = <<MissingTypeFrame>>
  /\ conversation_metrics.audio_requests = 1 /\ conversation_metrics.errors = 0

Types(frames) == [k \in DOMAIN frames |-> frames[k].type]

\* processing_started, then either one error frame and nothing more, or
\* text_response, audio_generation_started, audio chunks and, last,
\* audio_generation_complete
ChatOrder(ts) ==
  /\ Len(ts) >= 1 => ts[1] = "processing_started"
  /\ Len(ts) >= 2 => (ts[2] \in {"text_response", "error"} /\ (ts[2] = "error" => Len(ts) = 2))
  /\ Len(ts) >= 3 => ts[3] = "audio_generation_started"
  /\ \A k \in 4..Len(ts) :
       ts[k] = "audio_chunk" \/ (k = Len(ts) /\ ts[k] = "audio_generation_complete")

\* a chat request with its message, on an agent with both capabilities, and the
\* connection open
FullChat ==
  /\ mode = "agent" /\ cur.type = "chat_with_audio" /\ cur.has
  /\ services_available.chat /\ services_available.audio
  /\ conn = "OPEN"

TextFailed == {"ch_err_empty", "ch_err_timeout", "ch_err_fail"}

\* C32: for a chat_with_audio request on an open connection with both capabilities
\* available the frames go out in the order processing_started, text_response,
\* audio_generation_started, audio_chunk*, audio_generation_complete, and the
\* handler returns only after the last of them; no synthesis is started before the
\* text frame and the start frame have gone out; when the text generation times
\* out, fails or returns nothing, one error frame follows processing_started,
\* nothing else is sent and no synthesis is started.
C32_ChatFrameOrder ==
  /\ [](FullChat =>
          /\ ChatOrder(Types(sent))
          /\ pc = "recv" =>
               /\ Len(sent) >= 2
               /\ sent[Len(sent)].type \in {"error", "audio_generation_complete"}
          /\ pc \in TextFailed => (Types(sent) = <<"processing_started">> /\ pl = NoPl)
          /\ (Len(sent) = 2 /\ sent[2].type = "error") => pl = NoPl)
  /\ []((cur.type = "chat_with_audio" /\ pl # NoPl) =>
          /\ Len(sent) >= 3
          /\ sent[2].type = "text_response" /\ sent[3].type = "audio_generation_started")
  /\ [][(FullChat /\ pc = "ch_llm" /\ pc' # "ch_llm") =>
          /\ pc' \in TextFailed \cup {"ch_text"}
          /\ pending'.type = IF pc' = "ch_text" THEN "text_response" ELSE "error"
          /\ pl' = NoPl]_vars

\* after a chat request that was answered and counted, a second chat request whose
\* text generation failed has been answered by processing_started and one error frame
C32_Witness ==
  /\ FullChat /\ nreq = 2 /\ pc = "recv"
  /\ Types(sent) = <<"processing_started", "error">>
  /\ conversation_metrics.chat_requests = 1

\* the request lacks the field its handler requires: message, text, audio_data,
\* language, course_id
MissingField(req) ==
  /\ req.type \in {"chat_with_audio", "audio_only", "transcribe_audio", "set_language",
                   "start_class"}
  /\ ~req.has

CapabilityCalls == {"ch_llm", "sc_load", "sc_gen", "ta_stt"}

\* C33 as stated: a request that lacks its required field is answered by exactly
\* one error frame; no acknowledgment frame is sent for it, no capability is
\* called, and on an open connection the session is back at its receive.
C33_RequiredFieldsValidated ==
  (mode = "agent" /\ MissingField(cur)) =>
     /\ Len(sent) <= 1
     /\ \A k \in DOMAIN sent : sent[k].type = "error"
     /\ pending.type \in {"error", "none"}
     /\ pc \notin CapabilityCalls /\ pl = NoPl
     /\ pc = "recv" => Len(sent) = 1
     /\ conn = "OPEN" => pc # "terminated"

\* a start_class request without course_id is being acknowledged: class_starting
\* is on its way on an open connection and no error frame has been sent
C33_ClassWithoutCourseId ==
  /\ mode = "agent" /\ cur.type = "start_class" /\ ~cur.has
  /\ pc = "sc_ack" /\ conn = "OPEN"
  /\ pending.type = "class_starting" /\ sent = <<>>

\* a start_class request on an agent, the connection open
OpenClass == mode = "agent" /\ cur.type = "start_class" /\ conn = "OPEN"

\* class_starting, then an error frame and nothing more, or course_info, one
\* teaching_content, audio_generation_started and no teaching_content after it
ClassOrder(ts) ==
  /\ Len(ts) >= 1 => ts[1] = "class_starting"
  /\ Len(ts) >= 2 => (ts[2] \in {"course_info", "error"} /\ (ts[2] = "error" => Len(ts) = 2))
  /\ Len(ts) >= 3 => ts[3] = "teaching_content"
  /\ Len(ts) >= 4 => ts[4] = "audio_generation_started"
  /\ \A k \in 5..Len(ts) : ts[k] \in {"audio_chunk", "class_complete", "error"}

\* C34: for a start_class request on an open connection whose course lookup has
\* succeeded (course_info has gone out), exactly one teaching_content frame is sent,
\* after course_info and before audio_generation_started: when the teaching
\* capability is unavailable the frame follows course_info at once with the content
\* built from the course text, and whatever the capability answers (content,
\* nothing, a timeout, an exception) the next frame is teaching_content; no error
\* frame takes its place and the audio is not started without it.
C34_OneTeachingContent ==
  /\ [](OpenClass =>
          /\ ClassOrder(Types(sent))
          /\ (pc = "recv" /\ Len(sent) >= 2 /\ sent[2].type = "course_info") => Len(sent) >= 5
          /\ pl # NoPl => Len(sent) >= 4)
  /\ [][(OpenClass /\ pc = "sc_gen" /\ pc' # pc) =>
          /\ pc' \in {"sc_teach", "sc_teach_fb"}
          /\ pending'.type = "teaching_content"]_vars
  /\ [][(OpenClass /\ pc = "sc_info" /\ pc' # pc /\ ~services_available.teaching) =>
          /\ pc' = "sc_teach"
          /\ pending'.type = "teaching_content"
          /\ cur'.text = cur.text]_vars

\* the teaching service, available, has raised: the fallback content is on its
\* way as the one teaching_content frame, after class_starting and course_info
C34_Witness ==
  /\ OpenClass /\ services_available.teaching /\ pc = "sc_teach_fb"
  /\ Types(sent) = <<"class_starting", "course_info">>
  /\ pending.type = "teaching_content"

SplitOps == {"_split_text_fast", "_split_text_for_immediate_streaming"}

\* C35 as stated: for every non-empty text each of the two splitting functions
\* returns segments of length at most max_chunk_size, a text with a word longer
\* than max_chunk_size included.
C35_SegmentsWithinSize ==
  (pl.op \in SplitOps /\ pl.text # <<>>) =>
     \A k \in DOMAIN pl.chunks : TextLen(pl.chunks[k]) <= pl.max_chunk_size

\* _split_text_for_immediate_streaming has returned a segment that is one word of
\* seven characters under max_chunk_size 6, after a segment within the size
C35_OverlongSegment ==
  /\ pl.op = "_split_text_for_immediate_streaming" /\ pl.max_chunk_size = 6
  /\ Len(pl.chunks) = 2
  /\ pl.chunks[1] = <<2, 3>> /\ pl.chunks[2] = <<7>>

\* the words of the segments, in segment order
RECURSIVE WordsOf(_)
WordsOf(chunks) == IF chunks = <<>> THEN <<>> ELSE Head(chunks) \o WordsOf(Tail(chunks))

\* C36: for every text (its words joined by single spaces) the words of the
\* segments returned by _split_text_for_immediate_streaming, and by _split_text_fast,
\* taken in segment order, are the words of the text in the same order; no segment
\* is empty.
C36_SplitKeepsWords ==
  pl.op \in SplitOps =>
     /\ WordsOf(pl.chunks) = pl.text
     /\ \A k \in DOMAIN pl.chunks : pl.chunks[k] # <<>>

\* a text of four different words split into a first chunk of one word and two
\* further segments
C36_Witness ==
  /\ pl.op = "_split_text_for_immediate_streaming"
  /\ pl.text = <<3, 1, 2, 7>> /\ pl.max_chunk_size = 4
  /\ pl.chunks = <<<<3>>, <<1, 2>>, <<7>>>>

Running(p) == {j \in DOMAIN p.tasks : p.tasks[j] = "running"}

\* C37: on the parallel path of generate_audio the audio returned is the audio of
\* the segments whose call returned audio, in segment order, whatever the order in
\* which the calls finished; a call that fails or returns nothing contributes
\* nothing and every other segment is still synthesised; the calls in progress are
\* those of one batch, and a batch is started only when no call is in progress.
C37_ParallelAudioInSegmentOrder ==
  /\ []((pl.op = "returned" /\ pl.chunks # <<>>) =>
          /\ pl.all_audio_bytes = AudioInOrder(pl, 1, Len(pl.chunks))
          /\ \A j \in DOMAIN pl.tasks : pl.tasks[j] \in CallResults)
  /\ [](pl.op = "gather" =>
          /\ Running(pl) \subseteq Batch(pl)
          /\ \A j \in DOMAIN pl.tasks :
               /\ j < pl.i => pl.tasks[j] \in CallResults
               /\ j >= pl.i + max_concurrent(pl.chunks) => pl.tasks[j] = "todo")
  /\ [][(pl.op = "gather" /\ pl'.op = "gather" /\ pl'.i # pl.i) => Running(pl) = {}]_vars

\* four segments whose calls finished in the order 4, 3, 2, 1, the second with an
\* exception: the audio returned is that of segments 1, 3, 4
C37_Witness ==
  /\ pl.op = "returned" /\ Len(pl.chunks) = 4
  /\ pl.order = <<4, 3, 2, 1>>
  /\ pl.tasks = <<"audio", "exception", "audio", "audio">>
  /\ pl.all_audio_bytes = <<1, 3, 4>>

\* the handler that session i has started on this step, if any
Started(i) == sessions'[i].handlers \ sessions[i].handlers

\* C38: set_language with a language stores it as the session's current language
\* and answers with language_set; set_language without a language answers with an
\* error frame and leaves the current language as it was; a request without a
\* language field is handled in the session's current language and one with the
\* field in the language given; total_requests and audio_requests change only when
\* an audio_only handler returns, and then by one: ping, get_metrics and
\* set_language leave them unchanged.
C38_SessionLanguage ==
  /\ [](\A i \in SessionIds : \A h \in sessions[i].handlers :
          /\ (h.kind = "set_language" /\ h.given # NoLanguage) =>
                (h.frame = "language_set" /\ sessions[i].current_language = h.given)
          /\ (h.kind = "set_language" /\ h.given = NoLanguage) => h.frame = "error"
          /\ h.kind = "audio_only" =>
                h.language = IF h.given = NoLanguage THEN sessions[i].current_language
                             ELSE h.given)
  /\ [][\A i \in SessionIds : \A h \in Started(i) :
          ~(h.kind = "set_language" /\ h.given # NoLanguage) =>
             sessions'[i].current_language = sessions[i].current_language]_vars
  /\ [][\A i \in SessionIds :
          LET s == sessions[i]
              t == sessions'[i]
              returned == s.handlers \ t.handlers
          IN IF t.router = "recv" /\ \E h \in returned : h.kind = "audio_only"
             THEN /\ t.total_requests = s.total_requests + 1
                  /\ t.audio_requests = s.audio_requests + 1
             ELSE /\ t.total_requests = s.total_requests
                  /\ t.audio_requests = s.audio_requests]_vars

\* after a set_language to hi-IN, an audio_only request without a language field is
\* being handled in hi-IN, and nothing has been counted yet
C38_Witness ==
  /\ sessions # <<>>
  /\ sessions[1].nreq = 2 /\ sessions[1].current_language = "hi-IN"
  /\ \E h \in sessions[1].handlers :
       h.kind = "audio_only" /\ h.given = NoLanguage /\ h.language = "hi-IN"
  /\ sessions[1].total_requests = 0

\* the failure events of the session so far: its closure (no request fails on an
\* open connection)
FailureEvents == IF conn = "CLOSED" THEN 1 ELSE 0

\* C39 as stated: errors is incremented at most once per failure event, so it never
\* exceeds the number of failure events: one closure, seen inside a handler and
\* again by the router's receive, counts once.
C39_ErrorsOncePerFailure == conversation_metrics.errors <= FailureEvents

\* one chat request and one abnormal closure, which came while the completion
\* frame was being sent: errors is 3
C39_ClosureCountedThrice ==
  /\ mode = "agent" /\ nreq = 1 /\ cur.type = "chat_with_audio"
  /\ pc = "terminated" /\ closeCode \notin NormalCodes
  /\ conversation_metrics.errors = 3

Alive(i) == sessions[i].router \in {"ready", "recv", "await"}

\* C40 as stated: two sessions alive at the same time have different client ids,
\* also when both were accepted within the same second; and the first frame of a
\* session is connection_ready, sent before any frame is read: while it is being
\* sent nothing has been received, it is the only frame counted, and no frame is
\* received by a session that has not sent it.
C40_DistinctClientIds ==
  /\ \A i, j \in SessionIds :
       (i # j /\ Alive(i) /\ Alive(j)) => sessions[i].client_id # sessions[j].client_id
  /\ \A i \in SessionIds :
       /\ sessions[i].router = "ready" =>
            (sessions[i].nreq = 0 /\ sessions[i].message_count = 1
             /\ sessions[i].handlers = {})
       /\ sessions[i].nreq > 0 => sessions[i].message_count > sessions[i].nreq

\* two connections accepted within the same second, both alive, with one client id
C40_SameSecondSameId ==
  /\ sessions # <<>>
  /\ Alive(1) /\ Alive(2)
  /\ sessions[1].client_id = sessions[2].client_id
  /\ sessions[1].router = "await" /\ sessions[2].router = "ready"

====
